---- MODULE Spec2Model ----
(***************************************************************************)
(* Verification model of the SERP tracker dashboard (serp-tracker-web).    *)
(*                                                                         *)
(* The program is a set of independent pages and one proxy route.  Each    *)
(* part is modelled by its own group of variables and its own              *)
(* specification; a specification leaves the other groups at their idle    *)
(* values.                                                                 *)
(*                                                                         *)
(*   SpecDelta   the rank-delta function of the SERP batch (keywords page) *)
(*   SpecBest    findBestAccount, both variants of the recommendations page*)
(*   SpecProb    getAccountTier / getExposureProb                          *)
(*   SpecRec     generateRecommendations, both variants                    *)
(*   SpecSettings the blog_score_formula editor of the settings page       *)
(*   SpecScore   calcBlogScore of the accounts page                        *)
(*   SpecProxy   the GET and POST handlers of /api/ec2/[...path]           *)
(*   SpecBatch   the keywords page: SERP batch, volume refresh, toggle     *)
(*   SpecVolume  the volume refresh over keywords tables with sub_keywords *)
(*   SpecSync    the sync of the keywords page from publish_records        *)
(*   SpecBusy    the three handlers of the keywords page, with fairness    *)
(*   SpecTrigger the job triggers of the dashboard and the manual analysis *)
(*   SpecRankings the rankings page                                        *)
(*   SpecPublish the exposure filter of the publish page                   *)
(*   SpecModal   the account modal of the accounts page                    *)
(*                                                                         *)
(* A nullable value (number | null) is the empty sequence for null and the *)
(* one-element sequence <<v>> for the value v.                             *)
(***************************************************************************)
EXTENDS Integers, Sequences, FiniteSets, TLC

Null == <<>>
Some(v) == <<v>>
Val(o) == o[1]

\* ---------------------------------------------------------------- bounds
\* Largest rank the crawler reports in the model (rank_max of the program
\* is a setting, 1..MaxRank stands for it).
MaxRank == 12

\* Most accounts in the accounts table.
MaxAccounts == 3

\* Most keywords handed to generateRecommendations.
MaxKeywords == 2

\* Most content items of one keyword.
MaxContents == 2

\* Most accounts handed to generateRecommendations.
MaxRecAccounts == 2

\* Most accounts on the accounts page.
MaxScoreAccounts == 2

\* Most keywords of one account on the accounts page.
MaxAcctKeywords == 2

\* Most serp_results rows of one keyword on the accounts page.
MaxSerpRows == 2

\* Most requests the proxy route answers in one behaviour.
MaxProxyCalls == 2

\* Most content items of the keywords page, and most batch runs started in
\* one behaviour.
MaxBatchContents == 2
MaxRuns == 2

\* Most keywords of a keywords table whose sub_keywords are varied, and most
\* batches of a volume refresh.
MaxVolKeywords == 2
MaxVolBatches == 3

\* Most rows of publish_records.
MaxPublishRecords == 2

\* Most requests sent to the crawler by the job triggers in one behaviour.
MaxTriggers == 2

\* loadData keeps the latest serp_results rows of a content item (or of a
\* keyword in the legacy variant): slice(0, 2)
SerpSlice == 2

Ranks == {Null} \cup {Some(r) : r \in 1..MaxRank}

\* keywords.competition is a free string.  The four keys of the tables of the
\* recommendations page are written in ASCII here: "high" is the key
\* U+B192 U+C74C, "medium" U+C911 U+AC04, "low" U+B0AE U+C74C, "unknown" the
\* key U+C54C U+0020 U+C218 U+0020 U+C5C6 U+C74C; "other" is any string that
\* is none of the four keys.
Competitions == {"high", "medium", "low", "unknown", "other"}

\* blog_score values: both ends of every band and of every tier.
ScoreVals == {0, 34, 35, 39, 40, 60, 69, 70, 100}

\* accounts as loaded by .order('blog_score', { ascending: false }): the id
\* of an account is its place in that order.
AccountListsOver(scores, max) ==
    UNION {{a \in [1..n -> [id : 1..n, blog_score : scores]] :
              /\ \A i \in 1..n : a[i].id = i
              /\ \A i \in 1..(n-1) : a[i].blog_score >= a[i+1].blog_score}
           : n \in 0..max}

AccountLists == AccountListsOver(ScoreVals, MaxAccounts)

\* all sequences over S of length at most n
SeqUpTo(S, n) == UNION {[1..k -> S] : k \in 0..n}

Statuses == {"urgent", "recovery", "new"}

\* daily_publish_limits, the fields the tier reads; Null when the row is
\* missing.
ThresholdVals == {40, 70}
SettingsVals ==
    {Null} \cup {Some(s) : s \in [high_tier_threshold : ThresholdVals,
                                  medium_tier_threshold : ThresholdVals]}

VARIABLES
    prev,       \* calcChange: the previous rank handed in
    curr,       \* calcChange: the current rank handed in
    change,     \* calcChange: the value returned, Null before the call
    accounts,   \* allAccounts
    competition,\* kw.competition
    settings,   \* DailyLimitsSettings | null
    original,   \* legacy findBestAccount: originalAccount
    status,     \* legacy findBestAccount: status
    bestCall,   \* "none", or the variant of findBestAccount that was called
    best,       \* the account findBestAccount returned, or Null
    score,      \* getExposureProb: accountScore
    prob,       \* getExposureProb: the value returned in percent, Null before
    variant,    \* the version of the recommendations page: "content" | "legacy"
    keywords,   \* generateRecommendations: its first argument
    recs,       \* generateRecommendations: the list returned, Null before
    formula,    \* settings row blog_score_formula: its value, Null if no row
    formData,   \* BlogScoreFormulaEditor: formData
    saving,     \* SettingsPage: saving === 'blog_score_formula'
    pending,    \* the value of the saveSetting call in flight, Null if none
    settingsMsg,\* SettingsPage: "none" | "success" | "error"
    acctData,   \* AccountsPage: accounts (with keywords and serp_results)
    dbScore,    \* accounts table: blog_score by account id
    written,    \* by account id: the blog_score of the last run's update, Null if none
    calcMsg,    \* AccountsPage: "none" | "success" | "error"
    ec2,        \* settings row ec2_api: its value, Null if no row
    exchanges,  \* the requests the proxy route has answered, oldest first
    today,      \* the calendar day (new Date() as a date)
    dbContents, \* contents table, by id: [keyword_id, is_active, url]
    dbSerp,     \* serp_results table: rows [content_id, device, captured_at, rank, rank_change]
    dbKeywords, \* keywords table, by id: keyword, sub_keyword and the volume columns
    kwRows,     \* KeywordsPage: keywords, the rows of the keywords table as loaded
    kwPage,     \* KeywordsPage: the content items of keywords, as loaded
    actionRunning,\* KeywordsPage: actionRunning, Null | "sync" | "volume" | "serp"
    serpRun,    \* handleSerpBatch in progress: [items, i, today, reactivated], Null if none
    volRun,     \* handleVolumeUpdate in progress: [rows, b], Null if none
    publishRecords,\* publish_records table
    syncRun,    \* handleSyncFromPublishRecords in progress, Null if none
    synced,     \* the added counts of the syncs that ran to their end, oldest first
    trace,      \* the remote calls, database writes and delays of the last batch
    pageMsg,    \* KeywordsPage: "none" | "error" | "success"
    runs,       \* the batch runs started so far
    ec2Config,  \* DashboardActions: ec2Config, Null until loaded
    serverStatus,\* DashboardActions: serverStatus, Null if none
    serverLocks,\* the job types running on the crawler
    message,    \* DashboardActions: message type, "none" | "error" | "success"
    sent,       \* the job trigger requests sent to the crawler, oldest first
    lastOp,     \* what the last crawler operation of the user did, Null before
    loading,    \* DashboardActions: loading, Null | "status" | "rank" | "volume" | "analysis"
    inflight,   \* by handler: how many of its requests are outstanding
    timers,     \* the setTimeout(checkServerStatus, 2000) calls that have not fired
    rkData,     \* RankingsPage: the contents of one keyword as the select returns them
    rankings,   \* RankingsPage: rankings, Null before loadData
    rankFilter, \* RankingsPage: filter
    pubData,    \* PublishPage: the contents rows as the select returns them
    pubFilter,  \* PublishPage: filter.exposed
    pubContents,\* PublishPage: contents, Null before loadData
    acctTable,  \* accounts table, by id: [blog_score, daily_publish_limit]
    editingAccount,\* AccountsPage: editingAccount as an id, Null if none
    modalForm,  \* AccountModal: formData, Null while the modal is closed
    touched     \* whether a field of the open modal has been changed

deltaVars == <<prev, curr, change>>
bestVars == <<original, status, bestCall, best>>
probVars == <<score, prob>>
recVars == <<variant, keywords, recs>>
settingsVars == <<formula, formData, saving, pending, settingsMsg>>
scoreVars == <<acctData, dbScore, written, calcMsg>>
proxyVars == <<ec2, exchanges>>
syncVars == <<publishRecords, syncRun, synced>>
batchVars == <<today, dbContents, dbSerp, dbKeywords, kwRows, kwPage, actionRunning,
               serpRun, volRun, syncVars, trace, pageMsg, runs>>
triggerVars == <<ec2Config, serverStatus, serverLocks, message, sent, lastOp,
                 loading, inflight, timers>>
rankVars == <<rkData, rankings, rankFilter>>
publishVars == <<pubData, pubFilter, pubContents>>
modalVars == <<acctTable, editingAccount, modalForm, touched>>
viewVars == <<rankVars, publishVars, modalVars>>
sharedVars == <<accounts, competition, settings>>
\* what the actions of one part leave alone
pageVars == <<settingsVars, scoreVars, proxyVars, batchVars, triggerVars, viewVars>>
notDelta == <<sharedVars, bestVars, probVars, recVars, pageVars>>
notBest == <<sharedVars, deltaVars, probVars, recVars, pageVars>>
notProb == <<accounts, deltaVars, bestVars, recVars, pageVars>>
notRec == <<sharedVars, deltaVars, bestVars, probVars, pageVars>>
pureVars == <<sharedVars, deltaVars, bestVars, probVars, recVars>>
notSettings == <<pureVars, scoreVars, proxyVars, batchVars, triggerVars, viewVars>>
notScore == <<pureVars, formData, saving, pending, settingsMsg, proxyVars, batchVars, triggerVars, viewVars>>
notProxy == <<pureVars, settingsVars, scoreVars, batchVars, triggerVars, viewVars>>
notBatch == <<pureVars, settingsVars, scoreVars, exchanges, triggerVars, viewVars>>
notTrigger == <<pureVars, settingsVars, scoreVars, exchanges, batchVars, viewVars>>
vars == <<prev, curr, change, accounts, competition, settings,
          original, status, bestCall, best, score, prob,
          variant, keywords, recs,
          formula, formData, saving, pending, settingsMsg,
          acctData, dbScore, written, calcMsg, ec2, exchanges, batchVars, triggerVars,
          viewVars>>

\* ------------------------------------------------------------ rank delta
\* keywords/page.tsx 262-265
calcChangeNullOnlyPrev(p, c) == IF p = Null THEN 0 ELSE Val(p) - (IF c = Null THEN 0 ELSE Val(c))

calcChange(p, c) == IF p = Null \/ c = Null THEN 0 ELSE Val(p) - Val(c)

DeltaIdle == prev = Null /\ curr = Null /\ change = Null

DeltaInit == prev \in Ranks /\ curr \in Ranks /\ change = Null

CallCalcChange ==
    /\ change = Null
    /\ change' = Some(calcChange(prev, curr))
    /\ UNCHANGED <<prev, curr, notDelta>>

DeltaNext == CallCalcChange

SharedIdle == accounts = <<>> /\ competition = "other" /\ settings = Null
BestIdle == original = Null /\ status = "new" /\ bestCall = "none" /\ best = Null
ProbIdle == score = 0 /\ prob = Null
RecIdle == variant = "content" /\ keywords = <<>> /\ recs = Null

\* BlogScoreFormulaEditor.defaultValue
defaultValue == [exposure_weight |-> 40, rank_weight |-> 30, quality_weight |-> 30]

SettingsIdle ==
    /\ formula = Some(defaultValue) /\ formData = defaultValue
    /\ saving = FALSE /\ pending = Null /\ settingsMsg = "none"
ScoreIdle == acctData = <<>> /\ dbScore = <<>> /\ written = <<>> /\ calcMsg = "none"
ProxyIdle == ec2 = Null /\ exchanges = <<>>
BatchIdle ==
    /\ today = 1 /\ dbContents = <<>> /\ dbSerp = {} /\ dbKeywords = <<>>
    /\ kwRows = <<>> /\ kwPage = <<>> /\ actionRunning = Null
    /\ serpRun = Null /\ volRun = Null
    /\ publishRecords = <<>> /\ syncRun = Null /\ synced = <<>>
    /\ trace = <<>> /\ pageMsg = "none" /\ runs = 0
TriggerIdle ==
    /\ ec2Config = Null /\ serverStatus = Null /\ serverLocks = {}
    /\ message = "none" /\ sent = <<>> /\ lastOp = Null
    /\ loading = Null /\ inflight = <<>> /\ timers = 0
RankIdle == rkData = <<>> /\ rankings = Null /\ rankFilter = "all"
PublishIdle ==
    /\ pubData = <<>> /\ pubFilter = [account |-> 0, exposed |-> "all"]
    /\ pubContents = Null
ModalIdle ==
    acctTable = <<>> /\ editingAccount = Null /\ modalForm = Null /\ touched = FALSE
ViewIdle == RankIdle /\ PublishIdle /\ ModalIdle
PagesIdle ==
    SettingsIdle /\ ScoreIdle /\ ProxyIdle /\ BatchIdle /\ TriggerIdle /\ ViewIdle

InitDelta == DeltaInit /\ SharedIdle /\ BestIdle /\ ProbIdle /\ RecIdle /\ PagesIdle

SpecDelta == InitDelta /\ [][DeltaNext]_vars

\* C1: calcChange(prev, curr) is prev - curr when both ranks are present
\* (positive exactly when the rank number went down, an improvement) and 0
\* when prev or curr is null.
C1_CalcChange ==
    change # Null =>
        /\ (prev # Null /\ curr # Null) => Val(change) = Val(prev) - Val(curr)
        /\ (prev # Null /\ curr # Null) => (Val(change) > 0 <=> Val(curr) < Val(prev))
        /\ (prev = Null \/ curr = Null) => Val(change) = 0

\* a call with a present previous rank and a null current rank has returned
C1_Witness == change # Null /\ prev = Some(5) /\ curr = Null

\* ------------------------------------------------------- findBestAccount
\* Array.prototype.sort((a, b) => b.blog_score - a.blog_score): a stable
\* sort, descending by blog_score.
RECURSIVE InsertByScore(_, _)
InsertByScore(sorted, a) ==
    IF sorted = <<>> THEN <<a>>
    ELSE IF Head(sorted).blog_score >= a.blog_score
         THEN <<Head(sorted)>> \o InsertByScore(Tail(sorted), a)
         ELSE <<a>> \o sorted

RECURSIVE SortByScoreDesc(_)
SortByScoreDesc(s) ==
    IF s = <<>> THEN <<>>
    ELSE InsertByScore(SortByScoreDesc(SubSeq(s, 1, Len(s) - 1)), s[Len(s)])

\* the ranges table and its default
ranges(comp) ==
    CASE comp = "high" -> <<60, 100>>
      [] comp = "medium" -> <<35, 69>>
      [] comp = "low" -> <<0, 34>>
      [] comp = "unknown" -> <<0, 100>>
      [] OTHER -> <<0, 100>>

InBand(a, comp) == a.blog_score >= ranges(comp)[1] /\ a.blog_score <= ranges(comp)[2]

findBestAccountNoBand(comp, allAccounts) ==
    IF allAccounts = <<>> THEN Null ELSE Some(SortByScoreDesc(allAccounts)[1])

\* content-based variant
findBestAccount(comp, allAccounts) ==
    LET candidates == SelectSeq(allAccounts, LAMBDA a : InBand(a, comp))
    IN  IF Len(candidates) > 0
        THEN Some(SortByScoreDesc(candidates)[1])
        ELSE IF allAccounts = <<>> THEN Null
             ELSE Some(SortByScoreDesc(allAccounts)[1])

findBestAccountLegacyNoKeep(comp, originalAccount, allAccounts, st) ==
    findBestAccount(comp, allAccounts)

\* legacy (keyword-based) variant
findBestAccountLegacy(comp, originalAccount, allAccounts, st) ==
    IF (st = "urgent" \/ st = "recovery") /\ originalAccount # Null
    THEN originalAccount
    ELSE LET candidates == SelectSeq(allAccounts, LAMBDA a : InBand(a, comp))
         IN  IF Len(candidates) > 0
             THEN Some(SortByScoreDesc(candidates)[1])
             ELSE IF allAccounts = <<>> THEN Null
                  ELSE Some(SortByScoreDesc(allAccounts)[1])

BestInit ==
    /\ accounts \in AccountLists
    /\ competition \in Competitions
    /\ original \in {Null} \cup {Some(accounts[i]) : i \in 1..Len(accounts)}
    /\ status \in Statuses
    /\ bestCall = "none"
    /\ best = Null
    /\ settings = Null

CallFindBestAccount ==
    /\ bestCall = "none"
    /\ bestCall' = "content"
    /\ best' = findBestAccount(competition, accounts)
    /\ UNCHANGED <<original, status, notBest>>

CallFindBestAccountLegacy ==
    /\ bestCall = "none"
    /\ bestCall' = "legacy"
    /\ best' = findBestAccountLegacy(competition, original, accounts, status)
    /\ UNCHANGED <<original, status, notBest>>

BestNext == CallFindBestAccount \/ CallFindBestAccountLegacy

InitBest == BestInit /\ DeltaIdle /\ ProbIdle /\ RecIdle /\ PagesIdle

SpecBest == InitBest /\ [][BestNext]_vars

\* the band the claim gives for a competition value
ClaimBand(comp) ==
    CASE comp = "high" -> 60..100
      [] comp = "medium" -> 35..69
      [] comp = "low" -> 0..34
      [] OTHER -> 0..100

AccountSet == {accounts[i] : i \in 1..Len(accounts)}
BandSet == {a \in AccountSet : a.blog_score \in ClaimBand(competition)}
IsTop(a, S) == a \in S /\ \A b \in S : b.blog_score <= a.blog_score

\* the legacy call kept the existing account
Kept == bestCall = "legacy" /\ status \in {"urgent", "recovery"} /\ original # Null

\* C6: when no existing account is kept, findBestAccount returns an account
\* of the highest blog_score among those in the competition band, else, the
\* band being empty, one of the highest blog_score overall, else, the list
\* being empty, null.
C6_BestAccount ==
    (bestCall # "none" /\ ~Kept) =>
        /\ BandSet # {} => (best # Null /\ IsTop(Val(best), BandSet))
        /\ (BandSet = {} /\ AccountSet # {}) => (best # Null /\ IsTop(Val(best), AccountSet))
        /\ AccountSet = {} => best = Null

\* a low-competition keyword, an account in [0,34] and a higher-scored one
\* outside of it: the call answered the account in the band
C6_Witness ==
    /\ bestCall = "content" /\ competition = "low"
    /\ Len(accounts) = 2 /\ accounts[1].blog_score = 70 /\ accounts[2].blog_score = 34
    /\ best = Some(accounts[2])

\* ------------------------------------------------------ getExposureProb
\* part_002 48-53 (recommendations/page.tsx 39-44 is the same text)
getAccountTierNoHigh(sc, st) ==
    IF st = Null THEN "low"
    ELSE IF sc >= Val(st).medium_tier_threshold THEN "medium"
    ELSE "low"

getAccountTier(sc, st) ==
    IF st = Null THEN "low"
    ELSE IF sc >= Val(st).high_tier_threshold THEN "high"
    ELSE IF sc >= Val(st).medium_tier_threshold THEN "medium"
    ELSE "low"

\* the matrix of getExposureProb, in percent (0.95 is 95)
matrix ==
    [low     |-> [high |-> 95, medium |-> 75, low |-> 50],
     medium  |-> [high |-> 80, medium |-> 55, low |-> 30],
     high    |-> [high |-> 60, medium |-> 25, low |-> 10],
     unknown |-> [high |-> 70, medium |-> 45, low |-> 25]]

\* matrix[competition]?.[tier] || 0.3, in percent: a missing row and a
\* falsy entry both give 0.3.
getExposureProb(accountScore, comp, st) ==
    LET tier == getAccountTier(accountScore, st)
        entry == IF comp \in DOMAIN matrix THEN Some(matrix[comp][tier]) ELSE Null
    IN  IF entry = Null \/ entry = Some(0) THEN 30 ELSE Val(entry)

ProbInit ==
    /\ score \in ScoreVals
    /\ competition \in Competitions
    /\ settings \in SettingsVals
    /\ prob = Null
    /\ accounts = <<>>

CallGetExposureProb ==
    /\ prob = Null
    /\ prob' = Some(getExposureProb(score, competition, settings))
    /\ UNCHANGED <<score, competition, settings, notProb>>

ProbNext == CallGetExposureProb

InitProb == ProbInit /\ DeltaIdle /\ BestIdle /\ RecIdle /\ PagesIdle

SpecProb == InitProb /\ [][ProbNext]_vars

\* the tier the claim gives to a score under present thresholds
ClaimTier(sc, th) ==
    IF sc >= th.high_tier_threshold THEN "high"
    ELSE IF sc >= th.medium_tier_threshold THEN "medium"
    ELSE "low"

\* the table the claim refers to, in percent
ClaimTable(comp, tier) ==
    CASE comp = "low" -> (CASE tier = "high" -> 95 [] tier = "medium" -> 75 [] OTHER -> 50)
      [] comp = "medium" -> (CASE tier = "high" -> 80 [] tier = "medium" -> 55 [] OTHER -> 30)
      [] comp = "high" -> (CASE tier = "high" -> 60 [] tier = "medium" -> 25 [] OTHER -> 10)
      [] comp = "unknown" -> (CASE tier = "high" -> 70 [] tier = "medium" -> 45 [] OTHER -> 25)

\* C8: with the thresholds present, getExposureProb is the table entry of
\* (competition, tier) for the four known competition values, the tier being
\* high from high_tier_threshold on, else medium from medium_tier_threshold
\* on, else low; for any other competition value it is 0.3.
C8_ExposureProb ==
    (prob # Null /\ settings # Null) =>
        /\ competition \in {"low", "medium", "high", "unknown"} =>
               Val(prob) = ClaimTable(competition, ClaimTier(score, Val(settings)))
        /\ competition \notin {"low", "medium", "high", "unknown"} => Val(prob) = 30

\* a score between the two thresholds and a high-competition keyword: the
\* call answered the medium column, 0.25
C8_Witness ==
    /\ prob = Some(25) /\ competition = "high" /\ score = 60
    /\ settings = Some([high_tier_threshold |-> 70, medium_tier_threshold |-> 40])

\* ----------------------------------------------- generateRecommendations
\* monthly_search_total values; log10(v + 10) is 2 for 90 and 3 for 990
VolumeVals == {0, 90, 990}

SetMin(S) == CHOOSE i \in S : \A j \in S : i <= j

\* rows.find(r => r.device === d): the first row of the device, or Null
FindDevice(rows, d) ==
    LET idx == {i \in 1..Len(rows) : rows[i].device = d}
    IN  IF idx = {} THEN Null ELSE Some(rows[SetMin(idx)])

IsExposedContentPcOnly(c) ==
    LET pcSerp == FindDevice(c.serp_results, "PC")
    IN  pcSerp # Null /\ Val(pcSerp).is_exposed

\* pcSerp?.is_exposed || moSerp?.is_exposed
IsExposedContent(c) ==
    LET pcSerp == FindDevice(c.serp_results, "PC")
        moSerp == FindDevice(c.serp_results, "MO")
    IN  \/ (pcSerp # Null /\ Val(pcSerp).is_exposed)
        \/ (moSerp # Null /\ Val(moSerp).is_exposed)

activeContents(kw) == SelectSeq(kw.contents, LAMBDA c : c.is_active)
exposedContents(kw) == SelectSeq(activeContents(kw), IsExposedContent)
inactiveContents(kw) == SelectSeq(kw.contents, LAMBDA c : ~c.is_active)

StatusOfUrgentFirst(kw) ==
    IF Len(activeContents(kw)) > 0 THEN "urgent"
    ELSE IF Len(inactiveContents(kw)) > 0 THEN "recovery"
    ELSE IF Len(kw.contents) = 0 THEN "new"
    ELSE "none"

\* the status of the content-based variant; "none" is the null that skips
\* the keyword
StatusOf(kw) ==
    IF Len(activeContents(kw)) > 0 /\ Len(exposedContents(kw)) = 0 THEN "urgent"
    ELSE IF Len(activeContents(kw)) = 0 /\ Len(inactiveContents(kw)) > 0 THEN "recovery"
    ELSE IF Len(kw.contents) = 0 THEN "new"
    ELSE "none"

\* the reason text: its template and the count it prints
ReasonOf(kw) ==
    CASE StatusOf(kw) = "urgent" -> <<"all unexposed", Len(activeContents(kw))>>
      [] StatusOf(kw) = "recovery" -> <<"tracking stopped", Len(inactiveContents(kw))>>
      [] OTHER -> <<"unpublished", 0>>

RecOf(kw, allAccounts, st) ==
    LET recommendedAccount == findBestAccount(kw.competition, allAccounts)
    IN  [keyword |-> kw,
         contents |-> kw.contents,
         status |-> StatusOf(kw),
         reason |-> ReasonOf(kw),
         recommendedAccount |-> recommendedAccount,
         exposureProb |-> IF recommendedAccount # Null
                          THEN getExposureProb(Val(recommendedAccount).blog_score,
                                               kw.competition, st)
                          ELSE 30]

\* the for loop: one push for every keyword with a status
RECURSIVE PushRecs(_, _, _)
PushRecs(kws, allAccounts, st) ==
    IF kws = <<>> THEN <<>>
    ELSE (IF StatusOf(Head(kws)) = "none" THEN <<>>
          ELSE <<RecOf(Head(kws), allAccounts, st)>>)
         \o PushRecs(Tail(kws), allAccounts, st)

RECURSIVE InsertByVolumeTiesFirst(_, _)
InsertByVolumeTiesFirst(sorted, r) ==
    IF sorted = <<>> THEN <<r>>
    ELSE IF Head(sorted).keyword.monthly_search_total > r.keyword.monthly_search_total
         THEN <<Head(sorted)>> \o InsertByVolumeTiesFirst(Tail(sorted), r)
         ELSE <<r>> \o sorted

\* recs.sort((a, b) => b.keyword.monthly_search_total -
\* a.keyword.monthly_search_total): stable, descending
RECURSIVE InsertByVolume(_, _)
InsertByVolume(sorted, r) ==
    IF sorted = <<>> THEN <<r>>
    ELSE IF Head(sorted).keyword.monthly_search_total >= r.keyword.monthly_search_total
         THEN <<Head(sorted)>> \o InsertByVolume(Tail(sorted), r)
         ELSE <<r>> \o sorted

RECURSIVE SortByVolumeDesc(_)
SortByVolumeDesc(s) ==
    IF s = <<>> THEN <<>>
    ELSE InsertByVolume(SortByVolumeDesc(SubSeq(s, 1, Len(s) - 1)), s[Len(s)])

\* content-based variant
generateRecommendations(keywordsWithContents, allAccounts, st) ==
    SortByVolumeDesc(PushRecs(keywordsWithContents, allAccounts, st))

\* ---- legacy (keyword-based) variant
\* Math.log10(totalVolume + 10) for the volumes of VolumeVals
Log10(n) == CASE n = 100 -> 2 [] n = 1000 -> 3

\* calcExpectedImpact, with exposureProb in percent.  The exact value of
\* exposureProb * volumeValue * statusWeight * 100 is a multiple of 1/4;
\* Math.round rounds halves up.  For three products the IEEE double result
\* falls just below the half the exact product hits, and rounds down.
calcExpectedImpact(exposureProb, totalVolume, st) ==
    LET volumeValue2 == IF totalVolume > 0 THEN 2 * Log10(totalVolume + 10) ELSE 1
        statusWeight2 == IF st = "urgent" THEN 4 ELSE IF st = "recovery" THEN 3 ELSE 2
        exact == (exposureProb * volumeValue2 * statusWeight2 + 2) \div 4
        belowHalf == {<<95, 6, 3>>, <<30, 1, 3>>, <<70, 1, 3>>}
    IN  IF <<exposureProb, volumeValue2, statusWeight2>> \in belowHalf
        THEN exact - 1 ELSE exact

LegacyStatusOf(kw) ==
    LET pcSerp == FindDevice(kw.serp_results, "PC")
        moSerp == FindDevice(kw.serp_results, "MO")
        pcRank == IF pcSerp = Null THEN Null ELSE Val(pcSerp).rank
        moRank == IF moSerp = Null THEN Null ELSE Val(moSerp).rank
        pcChange == IF pcSerp = Null THEN 0 ELSE Val(pcSerp).rank_change
        moChange == IF moSerp = Null THEN 0 ELSE Val(moSerp).rank_change
        isUnexposed == pcRank = Null /\ moRank = Null
        wasExposed == pcChange < -10 \/ moChange < -10
    IN  IF isUnexposed /\ wasExposed THEN "urgent"
        ELSE IF isUnexposed /\ kw.url # Null THEN "recovery"
        ELSE IF kw.url = Null THEN "new"
        ELSE "none"

LegacyRecOf(kw, allAccounts, st) ==
    LET accountScore == IF kw.account = Null THEN 0 ELSE Val(kw.account).blog_score
        exposureProb == getExposureProb(accountScore, kw.competition, st)
    IN  [keyword |-> kw,
         status |-> LegacyStatusOf(kw),
         reason |-> <<LegacyStatusOf(kw), 0>>,
         recommendedAccount |->
             findBestAccountLegacy(kw.competition, kw.account, allAccounts,
                                   LegacyStatusOf(kw)),
         expectedImpact |->
             calcExpectedImpact(exposureProb, kw.monthly_search_total, LegacyStatusOf(kw)),
         exposureProb |-> exposureProb]

RECURSIVE LegacyPushRecs(_, _, _)
LegacyPushRecs(kws, allAccounts, st) ==
    IF kws = <<>> THEN <<>>
    ELSE (IF LegacyStatusOf(Head(kws)) = "none" THEN <<>>
          ELSE <<LegacyRecOf(Head(kws), allAccounts, st)>>)
         \o LegacyPushRecs(Tail(kws), allAccounts, st)

\* recs.sort((a, b) => b.expectedImpact - a.expectedImpact)
RECURSIVE InsertByImpact(_, _)
InsertByImpact(sorted, r) ==
    IF sorted = <<>> THEN <<r>>
    ELSE IF Head(sorted).expectedImpact >= r.expectedImpact
         THEN <<Head(sorted)>> \o InsertByImpact(Tail(sorted), r)
         ELSE <<r>> \o sorted

RECURSIVE SortByImpactDesc(_)
SortByImpactDesc(s) ==
    IF s = <<>> THEN <<>>
    ELSE InsertByImpact(SortByImpactDesc(SubSeq(s, 1, Len(s) - 1)), s[Len(s)])

generateRecommendationsLegacy(kws, allAccounts, st) ==
    SortByImpactDesc(LegacyPushRecs(kws, allAccounts, st))

\* ---- the inputs loadData hands over
RecScoreVals == {20, 80}
RecAccountLists == AccountListsOver(RecScoreVals, MaxRecAccounts)

\* contents.account_id of the wide inputs: none, or the last account of the
\* list (one of the lowest blog_score)
AccountRefs(accs) == {Null} \cup {Some(i) : i \in {Len(accs)} \ {0}}

\* keyword lists in the order of the keywords query; the id of a keyword is
\* its place in the list
KeywordLists(K, max) ==
    UNION {{k \in [1..n -> K] : \A i \in 1..n : k[i].id = i} : n \in 0..max}

\* latest-first serp_results rows of a content item, at most SerpSlice
ContentRows == [device : {"PC", "MO"}, is_exposed : BOOLEAN]

\* one keyword, every content list up to MaxContents with every row list
DeepKeywords ==
    [id : {1}, competition : {"low"}, monthly_search_total : {90},
     contents : SeqUpTo([is_active : BOOLEAN, account_id : {Null},
                         serp_results : SeqUpTo(ContentRows, SerpSlice)],
                        MaxContents)]

\* several keywords, each with no content item, an active unexposed one, an
\* active exposed one or an inactive one
WideContents(accs) ==
    {<<>>} \cup
    {<<[is_active |-> c[1], account_id |-> a, serp_results |-> c[2]]>> :
        c \in {<<TRUE, <<[device |-> "PC", is_exposed |-> FALSE],
                         [device |-> "MO", is_exposed |-> FALSE]>>>>,
               <<TRUE, <<[device |-> "PC", is_exposed |-> TRUE]>>>>,
               <<FALSE, <<[device |-> "PC", is_exposed |-> FALSE],
                          [device |-> "MO", is_exposed |-> FALSE]>>>>},
        a \in AccountRefs(accs)}

WideKeywords(accs) ==
    [id : 1..MaxKeywords, competition : {"high", "low"},
     monthly_search_total : {90, 990}, contents : WideContents(accs)]

LegacyRows == [device : {"PC", "MO"}, rank : {Null, Some(3)}, rank_change : {-15, 0}]

\* keywords.account of the legacy variant, joined from the accounts table
LegacyAccounts(accs) == {Null} \cup {Some(accs[i]) : i \in 1..Len(accs)}
LegacyLastAccount(accs) == {Null} \cup {Some(accs[i]) : i \in {Len(accs)} \ {0}}

LegacyDeepKeywords(accs) ==
    [id : {1}, competition : Competitions, monthly_search_total : {90},
     url : {Null, Some("u")}, account : LegacyAccounts(accs),
     serp_results : SeqUpTo(LegacyRows, SerpSlice)]

LegacyWideKeywords(accs) ==
    [id : 1..MaxKeywords, competition : {"high"},
     monthly_search_total : {0, 990},
     url : {Null, Some("u")}, account : LegacyLastAccount(accs),
     serp_results : {<<>>,
                     <<[device |-> "PC", rank |-> Null, rank_change |-> -15]>>,
                     <<[device |-> "PC", rank |-> Some(3), rank_change |-> 0]>>}]

RecInit ==
    /\ accounts \in RecAccountLists
    /\ settings = Some([high_tier_threshold |-> 70, medium_tier_threshold |-> 40])
    /\ competition = "other"
    /\ variant \in {"content", "legacy"}
    /\ \/ /\ variant = "content"
          /\ \/ /\ Len(accounts) <= 1
                /\ keywords \in KeywordLists(DeepKeywords, 1)
             \/ keywords \in KeywordLists(WideKeywords(accounts), MaxKeywords)
       \/ /\ variant = "legacy"
          /\ \/ keywords \in KeywordLists(LegacyDeepKeywords(accounts), 1)
             \/ keywords \in KeywordLists(LegacyWideKeywords(accounts), MaxKeywords)
    /\ recs = Null

GenerateRecommendations ==
    /\ variant = "content"
    /\ recs = Null
    /\ recs' = Some(generateRecommendations(keywords, accounts, settings))
    /\ UNCHANGED <<variant, keywords, notRec>>

GenerateRecommendationsLegacy ==
    /\ variant = "legacy"
    /\ recs = Null
    /\ recs' = Some(generateRecommendationsLegacy(keywords, accounts, settings))
    /\ UNCHANGED <<variant, keywords, notRec>>

RecNext == GenerateRecommendations \/ GenerateRecommendationsLegacy

InitRec == RecInit /\ DeltaIdle /\ BestIdle /\ ProbIdle /\ PagesIdle

SpecRec == InitRec /\ [][RecNext]_vars

RecList == IF recs = Null THEN <<>> ELSE Val(recs)
RecsOfKeyword(k) == {i \in 1..Len(RecList) : RecList[i].keyword.id = k}

\* the latest row of device d of content item c says exposed (the rows are
\* latest first)
LatestExposed(c, d) ==
    \E j \in 1..Len(c.serp_results) :
        /\ c.serp_results[j].device = d
        /\ c.serp_results[j].is_exposed
        /\ \A k \in 1..(j-1) : c.serp_results[k].device # d

HasActiveExposed(kw) ==
    \E i \in 1..Len(kw.contents) :
        /\ kw.contents[i].is_active
        /\ LatestExposed(kw.contents[i], "PC") \/ LatestExposed(kw.contents[i], "MO")

\* C2: in the content-based variant every keyword of the input is either
\* left out (none) or appears exactly once with one of the statuses urgent,
\* recovery, new, every entry of the output is a keyword of the input, and a
\* keyword with an active content item whose latest PC or MO row is exposed
\* is left out.
C2_Classification ==
    (recs # Null /\ variant = "content") =>
        /\ \A i \in 1..Len(RecList) :
              /\ RecList[i].status \in {"urgent", "recovery", "new"}
              /\ RecList[i].keyword.id \in 1..Len(keywords)
              /\ RecList[i].keyword = keywords[RecList[i].keyword.id]
        /\ \A k \in 1..Len(keywords) :
              /\ Cardinality(RecsOfKeyword(k)) <= 1
              /\ HasActiveExposed(keywords[k]) => RecsOfKeyword(k) = {}

\* two keywords, the first with an active exposed content item, the second
\* without content: only the second is recommended
C2_Witness ==
    /\ recs # Null /\ variant = "content" /\ Len(keywords) = 2
    /\ HasActiveExposed(keywords[1])
    /\ RecsOfKeyword(1) = {} /\ Cardinality(RecsOfKeyword(2)) = 1

\* C18: the list of the content-based variant is ordered by non-increasing
\* monthly_search_total, and two entries of equal volume stand in the order
\* of their keywords in the input; with that the position of every entry is
\* fixed by the input, so a second run on the same input gives the same list.
C18_SortedStable ==
    (recs # Null /\ variant = "content") =>
        \A i, j \in 1..Len(RecList) :
            i < j =>
                /\ RecList[i].keyword.monthly_search_total
                      >= RecList[j].keyword.monthly_search_total
                /\ RecList[i].keyword.monthly_search_total
                      = RecList[j].keyword.monthly_search_total
                   => RecList[i].keyword.id < RecList[j].keyword.id

\* two recommended keywords of equal volume, listed in input order
C18_Witness ==
    /\ recs # Null /\ variant = "content" /\ Len(RecList) = 2
    /\ RecList[1].keyword.monthly_search_total = RecList[2].keyword.monthly_search_total
    /\ RecList[1].keyword.id = 1 /\ RecList[2].keyword.id = 2

\* the status the list gives keyword k: that of its entry, "excluded" if it
\* has none
ListedStatus(k) ==
    IF RecsOfKeyword(k) = {} THEN "excluded"
    ELSE RecList[CHOOSE i \in RecsOfKeyword(k) : TRUE].status

HasActive(kw) == \E i \in 1..Len(kw.contents) : kw.contents[i].is_active
HasInactive(kw) == \E i \in 1..Len(kw.contents) : ~kw.contents[i].is_active

\* C19: in the content-based variant a keyword is urgent iff it has an active
\* content item and no active item exposed on PC or MO, recovery iff it has no
\* active item and at least one inactive item, new iff it has no content item,
\* and excluded iff one of its active items is exposed.
C19_ClassifierIff ==
    (recs # Null /\ variant = "content") =>
        \A k \in 1..Len(keywords) :
            LET kw == keywords[k] IN
            /\ ListedStatus(k) = "urgent" <=> (HasActive(kw) /\ ~HasActiveExposed(kw))
            /\ ListedStatus(k) = "recovery" <=> (~HasActive(kw) /\ HasInactive(kw))
            /\ ListedStatus(k) = "new" <=> Len(kw.contents) = 0
            /\ ListedStatus(k) = "excluded" <=> HasActiveExposed(kw)

\* a keyword with an inactive item and an active item exposed on MO only is
\* excluded
C19_Witness ==
    /\ recs # Null /\ variant = "content" /\ Len(keywords) = 1
    /\ Len(keywords[1].contents) = 2
    /\ ~keywords[1].contents[1].is_active
    /\ keywords[1].contents[2].is_active
    /\ keywords[1].contents[2].serp_results =
          <<[device |-> "PC", is_exposed |-> FALSE], [device |-> "MO", is_exposed |-> TRUE]>>
    /\ ListedStatus(1) = "excluded"

\* the accounts the content items of a keyword were published on
ContentAccounts(kw) ==
    {Val(kw.contents[i].account_id) :
        i \in {j \in 1..Len(kw.contents) : kw.contents[j].account_id # Null}}

\* C7 (as amended): in the legacy (keyword-based) variant every urgent or
\* recovery recommendation whose keyword has an account recommends that
\* account, whatever the competition band and the other accounts' scores.
C7_KeepsAccountLegacy ==
    (recs # Null /\ variant = "legacy") =>
        \A i \in 1..Len(RecList) :
            (RecList[i].status \in {"urgent", "recovery"}
                /\ RecList[i].keyword.account # Null)
            => RecList[i].recommendedAccount = RecList[i].keyword.account

\* a high-competition keyword on an account of score 20 is urgent, an
\* account of score 80 exists, and the account of score 20 is recommended
C7_Witness ==
    /\ recs # Null /\ variant = "legacy"
    /\ \E i \in 1..Len(RecList) :
          /\ RecList[i].status = "urgent"
          /\ RecList[i].keyword.competition = "high"
          /\ RecList[i].keyword.account # Null
          /\ Val(RecList[i].keyword.account).blog_score = 20
          /\ RecList[i].recommendedAccount = RecList[i].keyword.account
    /\ \E a \in 1..Len(accounts) : accounts[a].blog_score = 80

\* C7 as stated, for both variants: an urgent or recovery recommendation
\* whose keyword has an account (in the content-based variant: whose content
\* items were published on accounts) recommends that account.
C7_KeepsAccount ==
    recs # Null =>
        \A i \in 1..Len(RecList) :
            RecList[i].status \in {"urgent", "recovery"} =>
                IF variant = "legacy"
                THEN RecList[i].keyword.account # Null
                        => RecList[i].recommendedAccount = RecList[i].keyword.account
                ELSE ContentAccounts(RecList[i].keyword) # {}
                        => /\ RecList[i].recommendedAccount # Null
                           /\ Val(RecList[i].recommendedAccount).id
                                  \in ContentAccounts(RecList[i].keyword)

\* ------------------------------------------------ blog_score_formula editor
\* what the admin types into a weight input: parseInt(e.target.value) || 0
WeightVals == {0, 20, 30, 40, 50}
WeightFields == {"exposure_weight", "rank_weight", "quality_weight"}

\* total of the editor: (exposure_weight || 0) + (rank_weight || 0) +
\* (quality_weight || 0)
total(fd) == fd.exposure_weight + fd.rank_weight + fd.quality_weight

\* useState(setting?.value || defaultValue), and the effect on [setting]
FormOf(f) == IF f = Null THEN defaultValue ELSE Val(f)

SettingsInit ==
    /\ formula \in {Null, Some(defaultValue)}
    /\ formData = FormOf(formula)
    /\ saving = FALSE
    /\ pending = Null
    /\ settingsMsg = "none"

\* onChange of one of the three inputs
EditWeight ==
    \E f \in WeightFields, v \in WeightVals :
        /\ formData' = [formData EXCEPT ![f] = v]
        /\ UNCHANGED <<formula, saving, pending, settingsMsg, notSettings>>

HandleSaveNoCheck ==
    /\ ~saving
    /\ saving' = TRUE
    /\ pending' = Some(formData)
    /\ settingsMsg' = "none"
    /\ UNCHANGED <<formula, formData, notSettings>>

\* a click on the save button, which is disabled while saving or while
\* total !== 100: handleSave, and saveSetting up to its await
HandleSave ==
    /\ ~saving
    /\ total(formData) = 100
    /\ saving' = TRUE
    /\ pending' = Some(formData)
    /\ settingsMsg' = "none"
    /\ UNCHANGED <<formula, formData, notSettings>>

\* saveSetting after its await.  The update addresses the row by key: without
\* the row nothing is written and no error is reported.  On success
\* loadSettings reloads the row and the editor takes its value.
SaveSettingDone ==
    /\ saving
    /\ \E ok \in BOOLEAN :
          IF ok
          THEN /\ formula' = IF formula = Null THEN Null ELSE pending
               /\ formData' = IF formula = Null THEN formData ELSE Val(pending)
               /\ settingsMsg' = "success"
          ELSE /\ settingsMsg' = "error"
               /\ UNCHANGED <<formula, formData>>
    /\ saving' = FALSE
    /\ pending' = Null
    /\ UNCHANGED notSettings

SettingsNext == EditWeight \/ HandleSave \/ SaveSettingDone

InitSettings == SettingsInit /\ ScoreIdle /\ ProxyIdle /\ BatchIdle /\ TriggerIdle /\ SharedIdle /\ DeltaIdle /\ BestIdle /\ ProbIdle /\ RecIdle /\ ViewIdle

SpecSettings == InitSettings /\ [][SettingsNext]_vars

\* C4: the stored blog_score_formula only ever changes to weights of sum
\* 100, and while the editor holds weights of another sum no save starts
\* and the stored setting stays as it is until a save started earlier
\* completes.
C4_SaveBlocked ==
    [][/\ formula' # formula => (formula' # Null /\ total(Val(formula')) = 100)
       /\ total(formData) # 100 => /\ ~(~saving /\ saving')
                                   /\ (~saving => formula' = formula)]_vars

\* 20/30/50 was saved and the editor now holds 50/30/30
C4_Witness ==
    /\ formula = Some([exposure_weight |-> 20, rank_weight |-> 30, quality_weight |-> 50])
    /\ formData = [exposure_weight |-> 50, rank_weight |-> 30, quality_weight |-> 30]
    /\ ~saving

\* ------------------------------------------------------------ calcBlogScore
\* (kw.serp_results || []).sort((a, b) => new Date(b.captured_at) - new
\* Date(a.captured_at)): stable, latest first
RECURSIVE InsertByCaptured(_, _)
InsertByCaptured(sorted, r) ==
    IF sorted = <<>> THEN <<r>>
    ELSE IF Head(sorted).captured_at >= r.captured_at
         THEN <<Head(sorted)>> \o InsertByCaptured(Tail(sorted), r)
         ELSE <<r>> \o sorted

RECURSIVE SortByCapturedDesc(_)
SortByCapturedDesc(s) ==
    IF s = <<>> THEN <<>>
    ELSE InsertByCaptured(SortByCapturedDesc(SubSeq(s, 1, Len(s) - 1)), s[Len(s)])

\* pcSerp?.rank ?? null of the latest row of the device
LatestRank(kw, d) ==
    LET serp == FindDevice(SortByCapturedDesc(kw.serp_results), d)
    IN  IF serp = Null THEN Null ELSE Val(serp).rank

\* the placeholder of a missing rank in Math.min(pcRank ?? 999, moRank ?? 999)
NoRank == 999

OrNoRank(r) == IF r = Null THEN NoRank ELSE Val(r)

bestRankPcFirst(kw) ==
    IF LatestRank(kw, "PC") # Null THEN Val(LatestRank(kw, "PC"))
    ELSE OrNoRank(LatestRank(kw, "MO"))

bestRank(kw) ==
    LET pc == OrNoRank(LatestRank(kw, "PC"))
        mo == OrNoRank(LatestRank(kw, "MO"))
    IN  IF pc <= mo THEN pc ELSE mo

IsExposedKeyword(kw) == LatestRank(kw, "PC") # Null \/ LatestRank(kw, "MO") # Null

\* Math.max(0, 100 - (bestRank - 1) * 5), added for an exposed keyword with
\* bestRank < 999
RankScoreOf(kw) ==
    IF IsExposedKeyword(kw) /\ bestRank(kw) < NoRank
    THEN (IF 100 - (bestRank(kw) - 1) * 5 > 0 THEN 100 - (bestRank(kw) - 1) * 5 ELSE 0)
    ELSE 0

\* kw.opportunity_score || 50
QualityOf(kw) ==
    IF kw.opportunity_score = Null \/ kw.opportunity_score = Some(0)
    THEN 50 ELSE Val(kw.opportunity_score)

RECURSIVE exposedCount(_)
exposedCount(kws) ==
    IF kws = <<>> THEN 0
    ELSE (IF IsExposedKeyword(Head(kws)) THEN 1 ELSE 0) + exposedCount(Tail(kws))

RECURSIVE totalRankScore(_)
totalRankScore(kws) ==
    IF kws = <<>> THEN 0 ELSE RankScoreOf(Head(kws)) + totalRankScore(Tail(kws))

RECURSIVE totalQualityScore(_)
totalQualityScore(kws) ==
    IF kws = <<>> THEN 0 ELSE QualityOf(Head(kws)) + totalQualityScore(Tail(kws))

\* Math.round(num / den) for den > 0: the nearest integer, halves upwards
RoundDiv(num, den) == (2 * num + den) \div (2 * den)

\* Math.round(exposureRate * 0.4 + avgRankScore * 0.3 + avgQualityScore * 0.3)
\* as the rounding of the exact fraction, with
\*   exposureRate = n > 0 ? e / n * 100 : 0
\*   avgRankScore = e > 0 ? R / e : 0
\*   avgQualityScore = n > 0 ? Q / n : 50
\* (an exposed keyword makes n > 0).  For the keyword lists of this model
\* the IEEE double evaluation rounds to the same integer.
blogScore(kws) ==
    LET n == Len(kws)
        e == exposedCount(kws)
        R == totalRankScore(kws)
        Q == totalQualityScore(kws)
    IN  IF e > 0
        THEN RoundDiv(400 * e * e + 3 * R * n + 3 * Q * e, 10 * n * e)
        ELSE IF n > 0 THEN RoundDiv(3 * Q, 10 * n)
        ELSE RoundDiv(3 * 50, 10)

\* Math.min(100, Math.max(0, blogScore))
Clamp(v) == IF v < 0 THEN 0 ELSE IF v > 100 THEN 100 ELSE v

UpdatesAllAccounts(acct) == TRUE

\* if (keywords.length === 0) continue: the accounts of the loop that get an
\* update
UpdatesAccount(acct) == Len(acct.keywords) > 0

\* the blog_score of the update of an account
UpdateValue(acct) == Clamp(blogScore(acct.keywords))

\* loadData: the accounts in blog_score order with their stored blog_score
LoadAccounts(data, db) ==
    LET byId == [i \in 1..Len(data) |->
                    LET a == CHOOSE x \in {data[j] : j \in 1..Len(data)} : x.id = i
                    IN  [a EXCEPT !.blog_score = db[i]]]
    IN  SortByScoreDesc(byId)

\* ---- the accounts the page has loaded
ScoreRows == [device : {"PC", "MO"}, rank : {Null, Some(1), Some(MaxRank)},
              captured_at : 1..2]

\* serp_results (keyword_id, device, captured_at) is unique
ScoreRowLists ==
    {r \in SeqUpTo(ScoreRows, MaxSerpRows) :
        \A i, j \in 1..Len(r) :
            (r[i].device = r[j].device /\ r[i].captured_at = r[j].captured_at) => i = j}

OppVals == {Null, Some(0), Some(40), Some(100), Some(400)}

DeepScoreKeywords == [serp_results : ScoreRowLists, opportunity_score : OppVals]

ProfileScoreKeywords ==
    {[serp_results |-> <<>>, opportunity_score |-> Some(0)],
     [serp_results |-> <<[device |-> "PC", rank |-> Some(1), captured_at |-> 2]>>,
      opportunity_score |-> Some(100)],
     [serp_results |-> <<[device |-> "PC", rank |-> Null, captured_at |-> 2],
                         [device |-> "MO", rank |-> Some(MaxRank), captured_at |-> 2]>>,
      opportunity_score |-> Some(40)],
     [serp_results |-> <<[device |-> "PC", rank |-> Some(1), captured_at |-> 1],
                         [device |-> "PC", rank |-> Null, captured_at |-> 2]>>,
      opportunity_score |-> Null]}

StoredScoreVals == {0, 55}

ScoreAccountLists(K, maxAccounts, maxKeywords) ==
    UNION {{a \in [1..n -> [id : 1..n, blog_score : StoredScoreVals,
                            keywords : SeqUpTo(K, maxKeywords)]] :
              /\ \A i \in 1..n : a[i].id = i
              /\ \A i \in 1..(n-1) : a[i].blog_score >= a[i+1].blog_score}
           : n \in 0..maxAccounts}

\* the weights the editor can have saved
SavedFormulas ==
    {Null, Some(defaultValue),
     Some([exposure_weight |-> 20, rank_weight |-> 30, quality_weight |-> 50]),
     Some([exposure_weight |-> 50, rank_weight |-> 50, quality_weight |-> 0])}

ScoreInit ==
    /\ \/ acctData \in ScoreAccountLists(DeepScoreKeywords, 1, 1)
       \/ acctData \in ScoreAccountLists(ProfileScoreKeywords, 1, MaxAcctKeywords)
       \/ acctData \in ScoreAccountLists(ProfileScoreKeywords, MaxScoreAccounts, 1)
    /\ dbScore = [i \in 1..Len(acctData) |-> acctData[i].blog_score]
    /\ written = [i \in 1..Len(acctData) |-> Null]
    /\ calcMsg = "none"
    /\ formula \in SavedFormulas
    /\ formData = FormOf(formula)
    /\ saving = FALSE /\ pending = Null /\ settingsMsg = "none"

\* calcBlogScore after the confirm: the loop over the loaded accounts, each
\* update answered with success or with an error the code does not look at,
\* or throwing at account throwAt (0: none throws); then the success message
\* and loadData, which may fail and leave the loaded list as it is.
CalcBlogScore ==
    \E throwAt \in {0} \cup {j \in 1..Len(acctData) : UpdatesAccount(acctData[j])},
       failed \in SUBSET {j \in 1..Len(acctData) : UpdatesAccount(acctData[j])},
       loadOk \in BOOLEAN :
        LET updated(j) == UpdatesAccount(acctData[j]) /\ (throwAt = 0 \/ j < throwAt)
            place(id) == CHOOSE j \in 1..Len(acctData) : acctData[j].id = id
            newDb == [id \in 1..Len(acctData) |->
                         IF updated(place(id)) /\ place(id) \notin failed
                         THEN UpdateValue(acctData[place(id)])
                         ELSE dbScore[id]]
        IN  /\ dbScore' = newDb
            /\ written' = [id \in 1..Len(acctData) |->
                              IF updated(place(id))
                              THEN Some(UpdateValue(acctData[place(id)]))
                              ELSE Null]
            /\ calcMsg' = IF throwAt = 0 THEN "success" ELSE "error"
            /\ acctData' = IF throwAt = 0 /\ loadOk
                           THEN LoadAccounts(acctData, newDb)
                           ELSE acctData
            /\ UNCHANGED <<formula, notScore>>

ScoreNext == CalcBlogScore

InitScore == ScoreInit /\ ProxyIdle /\ BatchIdle /\ TriggerIdle /\ SharedIdle /\ DeltaIdle /\ BestIdle /\ ProbIdle /\ RecIdle /\ ViewIdle

SpecScore == InitScore /\ [][ScoreNext]_vars

KeywordsOfAccount(id) ==
    (CHOOSE a \in {acctData[j] : j \in 1..Len(acctData)} : a.id = id).keywords

\* C3: every blog_score calcBlogScore writes is an integer of 0..100 and is
\* written for an account with keywords; an account without keywords gets no
\* update and its stored blog_score does not change.
C3_BlogScoreRange ==
    /\ [](\A id \in DOMAIN written :
            written[id] # Null =>
                /\ Val(written[id]) \in 0..100
                /\ Len(KeywordsOfAccount(id)) > 0)
    /\ [][\A id \in DOMAIN dbScore :
            /\ dbScore'[id] # dbScore[id] => dbScore'[id] \in 0..100
            /\ Len(KeywordsOfAccount(id)) = 0 =>
                  (dbScore'[id] = dbScore[id] /\ written'[id] = Null)]_vars

\* a run over two accounts: the one without keywords keeps its stored 55,
\* the other one gets the upper end 100
C3_Witness ==
    /\ calcMsg = "success" /\ Len(acctData) = 2
    /\ \E a, b \in 1..2 :
          /\ Len(KeywordsOfAccount(a)) = 0 /\ dbScore[a] = 55 /\ written[a] = Null
          /\ Len(KeywordsOfAccount(b)) > 0 /\ written[b] = Some(100)
          /\ dbScore[b] = 100

\* the score of an account under weights w (in percent): the rounding of
\* exposureRate * w.exposure_weight / 100 + avgRankScore * w.rank_weight / 100
\* + avgQualityScore * w.quality_weight / 100, clamped to 0..100
WeightedScore(kws, w) ==
    LET n == Len(kws)
        e == exposedCount(kws)
        R == totalRankScore(kws)
        Q == totalQualityScore(kws)
    IN  Clamp(IF e > 0
              THEN RoundDiv(100 * w.exposure_weight * e * e + w.rank_weight * R * n
                            + w.quality_weight * Q * e, 100 * n * e)
              ELSE RoundDiv(w.quality_weight * Q, 100 * n))

\* C5: after a run of calcBlogScore that ended with the success message,
\* the blog_score written for every account with keywords is the score under
\* the weights stored in blog_score_formula.
C5_SavedWeightsApplied ==
    (calcMsg = "success" /\ formula # Null) =>
        \A id \in DOMAIN written :
            written[id] # Null =>
                Val(written[id]) = WeightedScore(KeywordsOfAccount(id), Val(formula))

\* ---- the formula of C20, written from its statement
\* the rank of the row of device d with the latest capture, Null without a row
CurrentRank(kw, d) ==
    LET rows == {kw.serp_results[i] : i \in 1..Len(kw.serp_results)}
        ofDevice == {r \in rows : r.device = d}
    IN  IF ofDevice = {} THEN Null
        ELSE (CHOOSE r \in ofDevice :
                \A q \in ofDevice : q.captured_at <= r.captured_at).rank

\* the finite ranks among pc_rank and mo_rank; the minimum with null as
\* +infinity is finite iff the set is not empty
FiniteRanks(kw) ==
    {Val(r) : r \in {CurrentRank(kw, "PC"), CurrentRank(kw, "MO")} \ {Null}}

KeywordExposed(kw) == FiniteRanks(kw) # {}

BestOf(kw) == CHOOSE r \in FiniteRanks(kw) : \A q \in FiniteRanks(kw) : r <= q

RankScoreFormula(kw) ==
    IF 100 - (BestOf(kw) - 1) * 5 > 0 THEN 100 - (BestOf(kw) - 1) * 5 ELSE 0

RECURSIVE SumRankScores(_, _)
SumRankScores(kws, I) ==
    IF I = {} THEN 0
    ELSE LET i == CHOOSE x \in I : TRUE
         IN  RankScoreFormula(kws[i]) + SumRankScores(kws, I \ {i})

RECURSIVE SumQuality(_, _)
SumQuality(kws, I) ==
    IF I = {} THEN 0
    ELSE LET i == CHOOSE x \in I : TRUE
         IN  QualityOf(kws[i]) + SumQuality(kws, I \ {i})

\* round(exposure_rate * 0.4 + rank_score_avg * 0.3 + quality_score * 0.3)
\* clamped to 0..100, for a list of n > 0 keywords; the rounding is to the
\* nearest integer, a half upwards
FormulaScore(kws) ==
    LET n == Len(kws)
        E == {i \in 1..n : KeywordExposed(kws[i])}
        e == Cardinality(E)
        R == SumRankScores(kws, E)
        Q == SumQuality(kws, 1..n)
        num == IF e > 0 THEN 400 * e * e + 3 * R * n + 3 * Q * e ELSE 3 * Q
        den == IF e > 0 THEN 10 * n * e ELSE 10 * n
        rounded == (2 * num + den) \div (2 * den)
    IN  IF rounded > 100 THEN 100 ELSE IF rounded < 0 THEN 0 ELSE rounded

C16_WriteFailureSurfaced ==
    calcMsg # "none" =>
        \A id \in DOMAIN written :
            (written[id] # Null /\ dbScore[id] # Val(written[id])) => calcMsg = "error"

\* ---- the quality score of C21, written from its statement
\* opportunity_score, with 50 for a keyword that has none
StatedQuality(kw) ==
    IF kw.opportunity_score = Null THEN 50 ELSE Val(kw.opportunity_score)

RECURSIVE SumStatedQuality(_)
SumStatedQuality(kws) ==
    IF kws = <<>> THEN 0 ELSE StatedQuality(Head(kws)) + SumStatedQuality(Tail(kws))

\* the blog_score of a list of n > 0 keywords when the quality score is the
\* mean of StatedQuality; exposure and rank score as the code counts them
StatedQualityScore(kws) ==
    LET n == Len(kws)
        e == exposedCount(kws)
        R == totalRankScore(kws)
        Q == SumStatedQuality(kws)
    IN  Clamp(IF e > 0
              THEN RoundDiv(400 * e * e + 3 * R * n + 3 * Q * e, 10 * n * e)
              ELSE RoundDiv(3 * Q, 10 * n))

\* C21: the quality score calcBlogScore uses is the mean of opportunity_score
\* over the keywords of the account, with 50 only for a keyword without an
\* opportunity_score; a stored opportunity_score of 0 counts as 0.  Hence the
\* blog_score written is the one computed from that mean.
C21_QualityMean ==
    \A id \in DOMAIN written :
        written[id] # Null =>
            Val(written[id]) = StatedQualityScore(KeywordsOfAccount(id))

\* ---------------------------------------------------------------- proxy route
\* The two error texts of the route are written in ASCII:
\*   "no ec2 setting" is the text of route.ts lines 25 and 65, "connect failed"
\*   the text of lines 43 and 99.
Secrets == {"s1", "s2"}

\* the value of the ec2_api row: none, the editor's default { base_url: '',
\* secret: '' }, or a server address with a secret
Ec2Values ==
    {Null, Some([base_url |-> "", secret |-> ""])}
    \cup {Some([base_url |-> "http://ec2", secret |-> s]) : s \in Secrets}

\* path segments of the route
GetPaths == {<<"health">>}
PostPaths == {<<"api", "serp", "check">>}

RECURSIVE Join(_)
Join(path) ==
    IF Len(path) = 1 THEN path[1] ELSE path[1] \o "/" \o Join(Tail(path))

\* endpoint = '/' + path.join('/')
Endpoint(path) == "/" \o Join(path)

\* request bodies of the callers, as text
RequestTexts ==
    {"", "{}", "{\"secret\":\"evil\"}", "{\"keyword\":\"k\"}",
     "{\"keyword\":\"k\",\"secret\":\"evil\"}"}

\* request.json(): the object of a body, Null when parsing throws
RequestJson(text) ==
    CASE text = "{}" -> Some(<<>>)
      [] text = "{\"secret\":\"evil\"}" -> Some([secret |-> "evil"])
      [] text = "{\"keyword\":\"k\"}" -> Some([keyword |-> "k"])
      [] text = "{\"keyword\":\"k\",\"secret\":\"evil\"}" -> Some([keyword |-> "k", secret |-> "evil"])
      [] OTHER -> Null

\* let body = {}; try { body = await request.json() } catch {}
BodyOf(text) == IF RequestJson(text) = Null THEN <<>> ELSE Val(RequestJson(text))

\* what fetch gives: it throws, or the remote server answers with a status
\* and a body text
RemoteOutcomes ==
    {[kind |-> "throws", status |-> 0, text |-> ""],
     [kind |-> "answer", status |-> 200, text |-> "{\"ok\":true}"],
     [kind |-> "answer", status |-> 503, text |-> "{\"ok\":false}"],
     [kind |-> "answer", status |-> 502, text |-> "<html>"]}

\* response.json(): Null when parsing throws
ResponseJson(text) ==
    CASE text = "{\"ok\":true}" -> Some([ok |-> TRUE])
      [] text = "{\"ok\":false}" -> Some([ok |-> FALSE])
      [] OTHER -> Null

SecretFirst(body, secret) ==
    [f \in DOMAIN body \cup {"secret"} |->
        IF f \in DOMAIN body THEN body[f] ELSE secret]

\* { ...body, secret: config.secret }
WithSecret(body, secret) ==
    [f \in DOMAIN body \cup {"secret"} |->
        IF f = "secret" THEN secret ELSE body[f]]

ErrorResponse(msg) == [status |-> 500, body |-> [error |-> msg]]

RelayAlways200(remote) ==
    IF remote.kind = "throws" \/ ResponseJson(remote.text) = Null
    THEN ErrorResponse("connect failed")
    ELSE [status |-> 200, body |-> Val(ResponseJson(remote.text))]

\* the end of both handlers: NextResponse.json(data, { status:
\* response.status }), or the catch block when fetch or response.json() throws
Relay(remote) ==
    IF remote.kind = "throws" \/ ResponseJson(remote.text) = Null
    THEN ErrorResponse("connect failed")
    ELSE [status |-> remote.status, body |-> Val(ResponseJson(remote.text))]

\* one handled request: the row as it was, what was sent to the remote server
\* (Null if nothing), what came of it, and the answer of the route
Exchange(request, forwarded, remote, response) ==
    [request |-> request, setting |-> ec2, forwarded |-> forwarded,
     remote |-> remote, response |-> response]

\* Both handlers. client: createClient() returns or throws; readOk: the select
\* of the ec2_api row gives the row, or data null (no row, or a failed query).
\* fetch of a url without a server address throws before anything is sent.
Handle(method, path, text, client, readOk, remote) ==
    LET request == [method |-> method, path |-> path, text |-> text]
        value == IF readOk THEN ec2 ELSE Null
    IN  IF client = "throws"
        THEN Exchange(request, Null, Null, ErrorResponse("connect failed"))
        ELSE IF value = Null
        THEN Exchange(request, Null, Null, ErrorResponse("no ec2 setting"))
        ELSE IF Val(value).base_url = ""
        THEN Exchange(request, Null, Null, ErrorResponse("connect failed"))
        ELSE Exchange(request,
                Some([method |-> method,
                      url |-> Val(value).base_url \o Endpoint(path),
                      secretHeader |-> Val(value).secret,
                      body |-> IF method = "POST"
                               THEN Some(WithSecret(BodyOf(text), Val(value).secret))
                               ELSE Null]),
                Some(remote), Relay(remote))

ProxyInit == ec2 \in Ec2Values /\ exchanges = <<>>

GET ==
    /\ Len(exchanges) < MaxProxyCalls
    /\ \E path \in GetPaths, client \in {"ok", "throws"}, readOk \in BOOLEAN,
          remote \in RemoteOutcomes :
        exchanges' = Append(exchanges, Handle("GET", path, "", client, readOk, remote))
    /\ UNCHANGED <<ec2, notProxy>>

POST ==
    /\ Len(exchanges) < MaxProxyCalls
    /\ \E path \in PostPaths, text \in RequestTexts, client \in {"ok", "throws"},
          readOk \in BOOLEAN, remote \in RemoteOutcomes :
        exchanges' = Append(exchanges, Handle("POST", path, text, client, readOk, remote))
    /\ UNCHANGED <<ec2, notProxy>>

\* EC2ApiEditor saves another value in the ec2_api row; the update matches
\* an existing row only
SaveEc2Setting ==
    /\ ec2 # Null
    /\ ec2' \in Ec2Values \ {Null, ec2}
    /\ UNCHANGED <<exchanges, notProxy>>

ProxyNext == GET \/ POST \/ SaveEc2Setting

InitProxy ==
    ProxyInit /\ SettingsIdle /\ ScoreIdle /\ SharedIdle /\ DeltaIdle /\ BestIdle
    /\ ProbIdle /\ RecIdle /\ BatchIdle /\ TriggerIdle /\ ViewIdle

SpecProxy == InitProxy /\ [][ProxyNext]_vars

Exchanges == {exchanges[i] : i \in 1..Len(exchanges)}

IsError(x) == x.response.status = 500 /\ DOMAIN x.response.body = {"error"}

RemoteFailed(x) ==
    Val(x.remote).kind = "throws" \/ ResponseJson(Val(x.remote).text) = Null

\* C9: for GET and POST alike, a request handled while the ec2_api row is
\* absent is answered 500 with an error body and nothing is sent to the remote
\* server; whenever nothing was sent the answer is 500 with an error body; a
\* request that was sent and whose remote call threw (fetch, or reading the
\* answer as JSON) is answered 500 with an error body; every other request is
\* answered with the remote JSON body and exactly the remote status.
C9_ProxyResponses ==
    \A x \in Exchanges :
        /\ x.setting = Null => x.forwarded = Null
        /\ x.forwarded = Null => IsError(x)
        /\ x.forwarded # Null /\ RemoteFailed(x) =>
              x.response = ErrorResponse("connect failed")
        /\ x.forwarded # Null /\ ~RemoteFailed(x) =>
              /\ x.response.status = Val(x.remote).status
              /\ x.response.body = Val(ResponseJson(Val(x.remote).text))

\* a GET has been relayed with the remote status 503 and its JSON body, and a
\* POST that was sent met a throwing fetch and was answered 500
C9_Witness ==
    /\ Len(exchanges) = 2
    /\ exchanges[1].request.method = "GET"
    /\ exchanges[1].response = [status |-> 503, body |-> [ok |-> FALSE]]
    /\ exchanges[2].request.method = "POST"
    /\ exchanges[2].forwarded # Null
    /\ Val(exchanges[2].remote).kind = "throws"
    /\ IsError(exchanges[2])

ForwardedPosts == {x \in Exchanges : x.request.method = "POST" /\ x.forwarded # Null}

\* the caller's body without its secret field
WithoutSecret(text) ==
    [f \in DOMAIN BodyOf(text) \ {"secret"} |-> BodyOf(text)[f]]

\* C10: every forwarded POST carries the secret of the ec2_api row both in the
\* X-API-Secret header and in the body field secret, and two POSTs handled
\* under the same row whose bodies differ at most in a caller-supplied secret
\* field are forwarded as the same request.
C10_SecretInjected ==
    /\ \A x \in ForwardedPosts :
        /\ Val(x.forwarded).secretHeader = Val(x.setting).secret
        /\ Val(Val(x.forwarded).body).secret = Val(x.setting).secret
    /\ \A x, y \in ForwardedPosts :
        x.setting = y.setting /\ x.request.path = y.request.path
        /\ WithoutSecret(x.request.text) = WithoutSecret(y.request.text)
        => x.forwarded = y.forwarded

\* two POSTs under the same row were forwarded, one with a secret of the
\* caller's and one without
C10_Witness ==
    /\ Len(exchanges) = 2
    /\ exchanges[1] \in ForwardedPosts /\ exchanges[2] \in ForwardedPosts
    /\ exchanges[1].setting = exchanges[2].setting
    /\ exchanges[1].request.text = "{\"keyword\":\"k\",\"secret\":\"evil\"}"
    /\ exchanges[2].request.text = "{\"keyword\":\"k\"}"

\* --------------------------------------------------------------- keywords page
\* for (let i = 0; i < keywords.length; i += batchSize)
batchSize == 10

Devices == {"PC", "MO"}
BatchRanks == {Null, Some(1), Some(3)}
BatchDays == 0..2

\* upsert with onConflict content_id,device,captured_at
Upsert(db, row) ==
    {r \in db : ~(/\ r.content_id = row.content_id /\ r.device = row.device
                  /\ r.captured_at = row.captured_at)} \cup {row}

\* the rows of content item c as the nested select returns them, sorted by
\* captured_at, latest first.  The sort is stable and the select has no order,
\* so the two rows of one day come in either order: order lists the devices.
RECURSIVE RowsFrom(_, _, _, _)
RowsFrom(db, c, day, order) ==
    IF day < 0 THEN <<>>
    ELSE LET at(d) == {r \in db : r.content_id = c /\ r.device = d /\ r.captured_at = day}
             one(d) == IF at(d) = {} THEN <<>> ELSE <<CHOOSE r \in at(d) : TRUE>>
         IN  one(order[1]) \o one(order[2]) \o RowsFrom(db, c, day - 1, order)

Slice(rows, n) == SubSeq(rows, 1, IF Len(rows) < n THEN Len(rows) ELSE n)

LastDay == CHOOSE d \in BatchDays : \A e \in BatchDays : e <= d

\* loadData: every content item with its latest serp_results rows
LoadContents(contents, db, order) ==
    [c \in 1..Len(contents) |->
        [id |-> c, keyword_id |-> contents[c].keyword_id,
         is_active |-> contents[c].is_active, url |-> contents[c].url,
         serp_results |-> Slice(RowsFrom(db, c, LastDay, order), SerpSlice)]]

\* getLatestSerp(content, device)?.rank ?? null
getLatestSerp(content, device) ==
    LET serp == FindDevice(content.serp_results, device)
    IN  IF serp = Null THEN Null ELSE Val(serp).rank

\* getEC2Config, and the test !ec2Config?.base_url
getEC2Config(readOk) == IF readOk THEN ec2 ELSE Null
HasBaseUrl(config) == config # Null /\ Val(config).base_url # ""

\* ---- the keywords table
\* A text (keyword, sub_keyword, lookup term) is a number: 0 is the empty
\* string, n >= 1 the n-th text.  keywords.keyword is unique and not empty.
\* the volume columns a row has before a refresh
StoredVolume ==
    [monthly_search_pc |-> 5, monthly_search_mo |-> 5, monthly_search_total |-> 10,
     competition |-> "low", mobile_ratio |-> 50]

KeywordRow(text, sub) ==
    [keyword |-> text, sub_keyword |-> sub,
     monthly_search_pc |-> StoredVolume.monthly_search_pc,
     monthly_search_mo |-> StoredVolume.monthly_search_mo,
     monthly_search_total |-> StoredVolume.monthly_search_total,
     competition |-> StoredVolume.competition,
     mobile_ratio |-> StoredVolume.mobile_ratio]

\* .order('monthly_search_total', { ascending: false }); rows with the same
\* total are taken in id order
RECURSIVE InsertByTotal(_, _)
InsertByTotal(sorted, r) ==
    IF sorted = <<>> THEN <<r>>
    ELSE IF Head(sorted).monthly_search_total >= r.monthly_search_total
         THEN <<Head(sorted)>> \o InsertByTotal(Tail(sorted), r)
         ELSE <<r>> \o sorted

RECURSIVE SortByTotalDesc(_)
SortByTotalDesc(s) ==
    IF s = <<>> THEN <<>>
    ELSE InsertByTotal(SortByTotalDesc(SubSeq(s, 1, Len(s) - 1)), s[Len(s)])

\* loadData: the keywords rows, each with its id
LoadKeywords(db) ==
    SortByTotalDesc([i \in 1..Len(db) |->
        [id |-> i, keyword |-> db[i].keyword, sub_keyword |-> db[i].sub_keyword,
         monthly_search_total |-> db[i].monthly_search_total]])

\* k.sub_keyword || k.keyword
LookupTerm(k) ==
    IF k.sub_keyword # Null /\ Val(k.sub_keyword) # 0 THEN Val(k.sub_keyword) ELSE k.keyword

\* keywords.slice(i, i + batchSize) of pass b = i / batchSize + 1
BatchOf(rows, b) ==
    SubSeq(rows, (b - 1) * batchSize + 1,
           IF b * batchSize < Len(rows) THEN b * batchSize ELSE Len(rows))

Batches(rows) == (Len(rows) + batchSize - 1) \div batchSize

\* the terms of kwList
TermsOf(batch) == {LookupTerm(batch[i]) : i \in 1..Len(batch)}

\* batch.find(k => (k.sub_keyword || k.keyword) === result.keyword): the id
\* of the first row of the batch with the term
FindByTerm(batch, term) ==
    batch[CHOOSE i \in 1..Len(batch) :
            /\ LookupTerm(batch[i]) = term
            /\ \A j \in 1..(i - 1) : LookupTerm(batch[j]) # term].id

\* result.total_volume > 0 ? Math.round((result.mo_volume /
\* result.total_volume) * 100) : 0
MobileRatio(result) ==
    IF result.total_volume > 0
    THEN RoundDiv(100 * result.mo_volume, result.total_volume)
    ELSE 0

\* the update of one keywords row from a result
VolumeUpdate(row, result) ==
    [row EXCEPT !.monthly_search_pc = result.pc_volume,
                !.monthly_search_mo = result.mo_volume,
                !.monthly_search_total = result.total_volume,
                !.competition = result.competition,
                !.mobile_ratio = MobileRatio(result)]

\* the loop over data.results, one result per term of kwList: the table after
\* the updates the database applied
ApplyResults(db, batch, answers, applied) ==
    [id \in 1..Len(db) |->
        IF \E t \in TermsOf(batch) : FindByTerm(batch, t) = id /\ t \in applied
        THEN VolumeUpdate(db[id], answers[CHOOSE t \in TermsOf(batch) : FindByTerm(batch, t) = id])
        ELSE db[id]]

\* what the crawler answers for a term: one term with every answer, or
\* several terms with fewer answers
VolumeResults ==
    {[pc_volume |-> 10, mo_volume |-> 30, total_volume |-> 40, competition |-> "high"],
     [pc_volume |-> 7, mo_volume |-> 1, total_volume |-> 8, competition |-> "medium"],
     [pc_volume |-> 0, mo_volume |-> 0, total_volume |-> 0, competition |-> "low"]}

\* a result that repeats the stored volume
SameVolume ==
    [pc_volume |-> StoredVolume.monthly_search_pc, mo_volume |-> StoredVolume.monthly_search_mo,
     total_volume |-> StoredVolume.monthly_search_total, competition |-> StoredVolume.competition]

VolumeAnswers(batch) ==
    IF Len(dbContents) > 0 THEN {[t \in TermsOf(batch) |-> SameVolume]}
    ELSE IF Len(batch) <= MaxVolKeywords THEN [TermsOf(batch) -> VolumeResults]
    ELSE {[t \in TermsOf(batch) |-> r] : r \in {v \in VolumeResults : v.total_volume > 0}}

\* the terms whose update the database applies
AppliedSets(batch) ==
    IF Len(dbContents) = 0 /\ Len(batch) <= MaxVolKeywords
    THEN SUBSET TermsOf(batch) ELSE {TermsOf(batch)}

\* ---- the inputs: one content item with every answer of the crawler and of
\* the database, or several items with fewer answers
SerpAnswers(n) ==
    IF n <= 1 THEN [pc : BatchRanks, mo : {Null, Some(3)}]
    ELSE {[pc |-> Some(1), mo |-> Null], [pc |-> Null, mo |-> Null]}

\* which of the two upserts and the contents update the database applies
WriteAnswers(n) ==
    IF n <= 1
    THEN {[pc |-> TRUE, mo |-> TRUE, act |-> TRUE], [pc |-> FALSE, mo |-> TRUE, act |-> TRUE],
          [pc |-> TRUE, mo |-> FALSE, act |-> TRUE], [pc |-> TRUE, mo |-> TRUE, act |-> FALSE]}
    ELSE {[pc |-> TRUE, mo |-> TRUE, act |-> TRUE]}

\* the order in which a select returns the two rows of one day
Orders(n) == IF n <= 1 THEN {<<"PC", "MO">>, <<"MO", "PC">>} ELSE {<<"PC", "MO">>}

\* rows of the day before the session
EarlierRows(c, n) ==
    {{}} \cup
    {{[content_id |-> c, device |-> "PC", captured_at |-> 0, rank |-> Some(3), rank_change |-> 0,
       is_exposed |-> TRUE],
      [content_id |-> c, device |-> "MO", captured_at |-> 0, rank |-> m, rank_change |-> 0,
       is_exposed |-> (m # Null)]} :
        m \in (IF n <= 1 THEN {Null, Some(3)} ELSE {Some(3)})}

BatchEc2Values(n) ==
    (IF n <= 1 THEN {Null, Some([base_url |-> "", secret |-> ""])} ELSE {})
    \cup {Some([base_url |-> "http://ec2", secret |-> "s1"])}

ContentRowsOf(n) ==
    [keyword_id : {1}, is_active : BOOLEAN, url : IF n <= 1 THEN {"", "u"} ELSE {"u"}]

WriteResult(ok) == IF ok THEN "ok" ELSE "error"

AfterFinallyKept(name) == Some(name)

\* finally { setActionRunning(null) }: actionRunning when a handler that has
\* set it is left, by the end of its try block, by a return inside it or
\* through its catch block
AfterFinally(name) == Null

DeactivatesNever(answer) == FALSE

DeactivatesOnOneNull(answer) == answer.pc = Null \/ answer.mo = Null

\* if (result.pc_rank === null && result.mo_rank === null)
Deactivates(answer) == answer.pc = Null /\ answer.mo = Null

LoopEndsOnFailure(i, n, result) == i = n \/ result # "ok"

\* the for loop is left when i < activeContents.length fails after i++
LoopEnds(i, n, result) == i = n

\* n keywords without sub_keyword
PlainKeywords(n) == [i \in 1..n |-> KeywordRow(i, Null)]

BatchInit ==
    /\ today = 1
    /\ dbKeywords \in {<<>>, PlainKeywords(batchSize + 1)}
    /\ \E n \in 0..MaxBatchContents :
        /\ dbKeywords = <<>> => n = 0
        /\ ec2 \in BatchEc2Values(n)
        /\ dbContents \in [1..n -> ContentRowsOf(n)]
        /\ \E rows \in [1..n -> UNION {EarlierRows(c, n) : c \in 1..n}] :
            /\ \A c \in 1..n : rows[c] \in EarlierRows(c, n)
            /\ dbSerp = UNION {rows[c] : c \in 1..n}
    /\ kwRows = LoadKeywords(dbKeywords)
    /\ kwPage = LoadContents(dbContents, dbSerp, <<"PC", "MO">>)
    /\ actionRunning = Null /\ serpRun = Null /\ volRun = Null
    /\ publishRecords = <<>> /\ syncRun = Null /\ synced = <<>>
    /\ trace = <<>> /\ pageMsg = "none" /\ runs = 0

\* handleSerpBatch up to the loop: the filter, getEC2Config, today
SerpBatchStart ==
    /\ actionRunning = Null /\ runs < MaxRuns
    /\ LET active == SelectSeq(kwPage, LAMBDA c : c.is_active /\ c.url # "")
       IN  IF active = <<>>
           THEN pageMsg' = "error" /\ UNCHANGED <<serpRun, trace, actionRunning>>
           ELSE \E readOk \in BOOLEAN :
                 IF HasBaseUrl(getEC2Config(readOk))
                 THEN /\ serpRun' = Some([items |-> active, i |-> 1, today |-> today,
                                          reactivated |-> {}])
                      /\ trace' = <<[type |-> "start", op |-> "serp", config |-> TRUE,
                                     items |-> [k \in 1..Len(active) |-> active[k].id],
                                     day |-> today]>>
                      /\ actionRunning' = Some("serp")
                      /\ UNCHANGED pageMsg
                 ELSE /\ pageMsg' = "error"
                      /\ trace' = <<[type |-> "start", op |-> "serp", config |-> FALSE,
                                     items |-> [k \in 1..Len(active) |-> active[k].id],
                                     day |-> today]>>
                      /\ actionRunning' = AfterFinally("serp")
                      /\ UNCHANGED serpRun
    /\ runs' = runs + 1
    /\ UNCHANGED <<today, dbContents, dbSerp, dbKeywords, kwRows, kwPage, volRun,
                   syncVars, ec2, notBatch>>

\* what one pass of the loop appends to the trace
ItemEvents(id, result, answer, writes, last) ==
    <<[type |-> "call", op |-> "serp", item |-> id, result |-> result, answer |-> answer]>>
    \o (IF result = "ok"
        THEN <<[type |-> "upsert", item |-> id, device |-> "PC", result |-> WriteResult(writes.pc)],
               [type |-> "upsert", item |-> id, device |-> "MO", result |-> WriteResult(writes.mo)]>>
             \o (IF Deactivates(answer)
                 THEN <<[type |-> "update", item |-> id, result |-> WriteResult(writes.act)]>>
                 ELSE <<>>)
        ELSE <<>>)
    \o (IF result # "notok" /\ ~last THEN <<[type |-> "delay"]>> ELSE <<>>)

NoAnswer == [pc |-> Null, mo |-> Null]

\* one pass of the loop of handleSerpBatch, and after the last pass the
\* success message and loadData
SerpBatchItem ==
    /\ serpRun # Null
    /\ LET run == Val(serpRun)
           n == Len(run.items)
           content == run.items[run.i]
           prevPc == getLatestSerp(content, "PC")
           prevMo == getLatestSerp(content, "MO")
       IN  \E result \in {"throws", "notok", "ok"} :
           \E answer \in (IF result = "ok" THEN SerpAnswers(Len(dbContents)) ELSE {NoAnswer}) :
           \E writes \in (IF result = "ok" THEN WriteAnswers(Len(dbContents))
                          ELSE {[pc |-> FALSE, mo |-> FALSE, act |-> FALSE]}) :
           \E order \in Orders(Len(dbContents)) :
             LET rowPc == [content_id |-> content.id, device |-> "PC", captured_at |-> run.today,
                           rank |-> answer.pc, rank_change |-> calcChange(prevPc, answer.pc),
                           is_exposed |-> (answer.pc # Null)]
                 rowMo == [content_id |-> content.id, device |-> "MO", captured_at |-> run.today,
                           rank |-> answer.mo, rank_change |-> calcChange(prevMo, answer.mo),
                           is_exposed |-> (answer.mo # Null)]
                 db1 == IF writes.pc THEN Upsert(dbSerp, rowPc) ELSE dbSerp
                 db2 == IF writes.mo THEN Upsert(db1, rowMo) ELSE db1
             IN  /\ dbSerp' = db2
                 /\ dbContents' =
                      IF result = "ok" /\ Deactivates(answer) /\ writes.act
                      THEN [dbContents EXCEPT ![content.id].is_active = FALSE]
                      ELSE dbContents
                 /\ trace' = trace \o ItemEvents(content.id, result, answer, writes, run.i = n)
                 /\ IF LoopEnds(run.i, n, result)
                    THEN /\ serpRun' = Null /\ actionRunning' = AfterFinally("serp")
                         /\ pageMsg' = "success"
                         /\ kwRows' = LoadKeywords(dbKeywords)
                         /\ kwPage' = LoadContents(dbContents', dbSerp', order)
                    ELSE /\ serpRun' = Some([run EXCEPT !.i = run.i + 1])
                         /\ order = <<"PC", "MO">>
                         /\ UNCHANGED <<pageMsg, kwRows, kwPage, actionRunning>>
    /\ UNCHANGED <<today, dbKeywords, volRun, syncVars, runs, ec2, notBatch>>

\* toggleContentActive of a content item of the page, with its loadData.
\* A running SERP batch notes the items the user has set active (reactivated
\* is no value of the program).
toggleContentActive ==
    /\ \E c \in 1..Len(kwPage), ok \in BOOLEAN, order \in Orders(Len(dbContents)) :
        /\ dbContents' = IF ok THEN [dbContents EXCEPT ![c].is_active = ~kwPage[c].is_active]
                         ELSE dbContents
        /\ kwPage' = LoadContents(dbContents', dbSerp, order)
        /\ serpRun' = IF serpRun # Null /\ ok /\ ~kwPage[c].is_active
                      THEN Some([Val(serpRun) EXCEPT !.reactivated = @ \cup {kwPage[c].id}])
                      ELSE serpRun
    /\ kwRows' = LoadKeywords(dbKeywords)
    /\ UNCHANGED <<today, dbSerp, dbKeywords, actionRunning, volRun, syncVars,
                   trace, pageMsg, runs, ec2, notBatch>>

\* ---- the volume refresh
VolumeAbortsOnThrowOnly(result) == result = "throws"

\* if (!response.ok) throw new Error(...), and a rejected fetch: both leave
\* the loop through the catch block
VolumeAborts(result) == result # "ok"

\* handleVolumeUpdate up to the loop: the length test, setActionRunning,
\* getEC2Config
handleVolumeUpdate ==
    /\ actionRunning = Null /\ runs < MaxRuns
    /\ IF Len(kwRows) = 0
       THEN pageMsg' = "error" /\ UNCHANGED <<trace, volRun, actionRunning>>
       ELSE \E readOk \in BOOLEAN :
             IF ~HasBaseUrl(getEC2Config(readOk))
             THEN /\ pageMsg' = "error"
                  /\ trace' = <<[type |-> "start", op |-> "volume", config |-> FALSE,
                                 items |-> <<>>]>>
                  /\ actionRunning' = AfterFinally("volume")
                  /\ UNCHANGED volRun
             ELSE /\ trace' = <<[type |-> "start", op |-> "volume", config |-> TRUE,
                                 items |-> <<>>]>>
                  /\ volRun' = Some([rows |-> kwRows, b |-> 1])
                  /\ actionRunning' = Some("volume")
                  /\ UNCHANGED pageMsg
    /\ runs' = runs + 1
    /\ UNCHANGED <<today, dbContents, dbSerp, dbKeywords, kwRows, kwPage, serpRun,
                   syncVars, ec2, notBatch>>

\* one pass of the loop of handleVolumeUpdate: the request, the updates of
\* the keywords the results name; after the last pass the success message
\* and loadData, after a failed request the error message
VolumeBatch ==
    /\ volRun # Null
    /\ LET run == Val(volRun)
           batch == BatchOf(run.rows, run.b)
       IN  \E result \in {"ok", "notok", "throws"} :
           \E answers \in (IF result = "ok" THEN VolumeAnswers(batch)
                           ELSE {[t \in TermsOf(batch) |-> SameVolume]}) :
           \E applied \in (IF result = "ok" THEN AppliedSets(batch) ELSE {{}}) :
           \E order \in Orders(Len(dbContents)) :
             /\ dbKeywords' = IF result = "ok"
                              THEN ApplyResults(dbKeywords, batch, answers, applied)
                              ELSE dbKeywords
             /\ trace' = trace
                  \o <<[type |-> "call", op |-> "volume", item |-> run.b, result |-> result,
                        rows |-> batch, answer |-> answers]>>
                  \o (IF result = "ok"
                      THEN <<[type |-> "keywords update", item |-> run.b,
                              result |-> WriteResult(applied = TermsOf(batch))]>>
                      ELSE <<>>)
             /\ IF VolumeAborts(result)
                THEN /\ volRun' = Null /\ actionRunning' = AfterFinally("volume")
                     /\ pageMsg' = "error"
                     /\ order = <<"PC", "MO">>
                     /\ UNCHANGED <<kwRows, kwPage>>
                ELSE IF run.b = Batches(run.rows)
                THEN /\ volRun' = Null /\ actionRunning' = AfterFinally("volume")
                     /\ pageMsg' = "success"
                     /\ kwRows' = LoadKeywords(dbKeywords')
                     /\ kwPage' = LoadContents(dbContents, dbSerp, order)
                ELSE /\ volRun' = Some([run EXCEPT !.b = run.b + 1])
                     /\ order = <<"PC", "MO">>
                     /\ UNCHANGED <<actionRunning, pageMsg, kwRows, kwPage>>
    /\ UNCHANGED <<today, dbContents, dbSerp, serpRun, runs, syncVars, ec2, notBatch>>

\* ---- the sync from publish_records
\* pr.search_pc || 0 and the like
OrZero(x) == IF x = Null THEN 0 ELSE Val(x)

\* the keywords row the sync inserts for a record; competition is
\* pr.competition || the key "unknown"
NewKeyword(pr) ==
    [keyword |-> pr.main_keyword, sub_keyword |-> pr.sub_keyword,
     monthly_search_pc |-> OrZero(pr.search_pc),
     monthly_search_mo |-> OrZero(pr.search_mo),
     monthly_search_total |-> OrZero(pr.search_total),
     competition |-> IF pr.competition = Null THEN "unknown" ELSE Val(pr.competition),
     mobile_ratio |-> OrZero(pr.mobile_ratio)]

\* the contents row the sync inserts: is_active is pr.rank_pc !== null ||
\* pr.rank_mo !== null
NewContent(pr, keywordId) ==
    [keyword_id |-> keywordId, is_active |-> (pr.rank_pc # Null \/ pr.rank_mo # Null),
     url |-> pr.url]

\* which of the two selects and the two inserts of a record the database
\* answers without error
SyncAnswers(n) ==
    {[kwRead |-> TRUE, kwInsert |-> TRUE, cRead |-> TRUE, cInsert |-> TRUE],
     [kwRead |-> TRUE, kwInsert |-> TRUE, cRead |-> TRUE, cInsert |-> FALSE]}
    \cup (IF n <= 1
          THEN {[kwRead |-> FALSE, kwInsert |-> TRUE, cRead |-> TRUE, cInsert |-> TRUE],
                [kwRead |-> TRUE, kwInsert |-> FALSE, cRead |-> TRUE, cInsert |-> TRUE],
                [kwRead |-> TRUE, kwInsert |-> TRUE, cRead |-> FALSE, cInsert |-> TRUE]}
          ELSE {})

\* contentCount++ follows the insert whatever its result
CountsContent(tries, inserted) == tries

\* handleSyncFromPublishRecords after the confirm, up to the loop:
\* setActionRunning, the select of publish_records; a failed select and an
\* empty table end the handler with an error through finally
handleSyncFromPublishRecords ==
    /\ actionRunning = Null /\ runs < MaxRuns
    /\ \E readOk \in BOOLEAN :
        IF ~readOk \/ publishRecords = <<>>
        THEN /\ pageMsg' = "error"
             /\ actionRunning' = AfterFinally("sync")
             /\ UNCHANGED syncRun
        ELSE /\ syncRun' = Some([records |-> publishRecords, i |-> 1, keywordCount |-> 0,
                                 contentCount |-> 0, failed |-> FALSE])
             /\ actionRunning' = Some("sync")
             /\ UNCHANGED pageMsg
    /\ trace' = <<[type |-> "start", op |-> "sync", config |-> TRUE, items |-> <<>>]>>
    /\ runs' = runs + 1
    /\ UNCHANGED <<today, dbContents, dbSerp, dbKeywords, kwRows, kwPage, serpRun, volRun,
                   publishRecords, synced, ec2, notBatch>>

\* one pass of the loop of handleSyncFromPublishRecords; after the last pass
\* the success message with the two counts and loadData
SyncRecord ==
    /\ syncRun # Null
    /\ LET run == Val(syncRun)
           pr == run.records[run.i]
           skip == pr.main_keyword = 0
           found == {id \in 1..Len(dbKeywords) : dbKeywords[id].keyword = pr.main_keyword}
       IN  \E ops \in SyncAnswers(Len(run.records)), order \in Orders(Len(dbContents)) :
             LET existingKw == IF ops.kwRead /\ found # {}
                               THEN Some(CHOOSE id \in found : TRUE) ELSE Null
                 kwTries == ~skip /\ existingKw = Null
                 \* keywords.keyword is unique
                 kwInserted == kwTries /\ ops.kwInsert /\ found = {}
                 keywords1 == IF kwInserted THEN Append(dbKeywords, NewKeyword(pr))
                              ELSE dbKeywords
                 keywordId == IF skip THEN Null
                              ELSE IF existingKw # Null THEN existingKw
                              ELSE IF kwInserted THEN Some(Len(keywords1)) ELSE Null
                 hasUrl == keywordId # Null /\ pr.url # ""
                 same == IF hasUrl
                         THEN {c \in 1..Len(dbContents) :
                                 /\ dbContents[c].keyword_id = Val(keywordId)
                                 /\ dbContents[c].url = pr.url}
                         ELSE {}
                 existingContent == ops.cRead /\ same # {}
                 cTries == hasUrl /\ ~existingContent
                 \* contents (keyword_id, url) is unique: error 23505
                 cInserted == cTries /\ ops.cInsert /\ same = {}
                 keywordCount == run.keywordCount + (IF kwInserted THEN 1 ELSE 0)
                 contentCount == run.contentCount
                                   + (IF CountsContent(cTries, cInserted) THEN 1 ELSE 0)
                 failed == \/ run.failed
                           \/ ~skip /\ ~ops.kwRead
                           \/ kwTries /\ ~kwInserted
                           \/ hasUrl /\ ~ops.cRead
                           \/ cTries /\ ~cInserted
             IN  /\ dbKeywords' = keywords1
                 /\ dbContents' = IF cInserted
                                  THEN Append(dbContents, NewContent(pr, Val(keywordId)))
                                  ELSE dbContents
                 /\ IF run.i = Len(run.records)
                    THEN /\ syncRun' = Null /\ actionRunning' = AfterFinally("sync")
                         /\ pageMsg' = "success"
                         /\ synced' = Append(synced, [keywordCount |-> keywordCount,
                                                      contentCount |-> contentCount,
                                                      failed |-> failed])
                         /\ kwRows' = LoadKeywords(dbKeywords')
                         /\ kwPage' = LoadContents(dbContents', dbSerp, order)
                    ELSE /\ syncRun' = Some([run EXCEPT !.i = run.i + 1,
                                                        !.keywordCount = keywordCount,
                                                        !.contentCount = contentCount,
                                                        !.failed = failed])
                         /\ order = <<"PC", "MO">>
                         /\ UNCHANGED <<actionRunning, pageMsg, synced, kwRows, kwPage>>
    /\ UNCHANGED <<today, dbSerp, serpRun, volRun, publishRecords, trace, runs, ec2, notBatch>>

\* midnight
NextDay ==
    /\ today + 1 \in BatchDays
    /\ today' = today + 1
    /\ UNCHANGED <<dbContents, dbSerp, dbKeywords, kwRows, kwPage, actionRunning, serpRun,
                   volRun, syncVars, trace, pageMsg, runs, ec2, notBatch>>

BatchNext ==
    \/ SerpBatchStart \/ SerpBatchItem \/ toggleContentActive
    \/ handleVolumeUpdate \/ VolumeBatch \/ NextDay

InitBatch ==
    BatchInit /\ exchanges = <<>> /\ SettingsIdle /\ ScoreIdle /\ SharedIdle /\ DeltaIdle
    /\ BestIdle /\ ProbIdle /\ RecIdle /\ TriggerIdle /\ ViewIdle

SpecBatch == InitBatch /\ [][BatchNext]_vars

\* the positions of the remote calls in the trace
CallsAt == {k \in 1..Len(trace) : trace[k].type = "call"}

\* the k-th remote call of the trace
CallNo(k) == trace[CHOOSE j \in CallsAt : Cardinality({m \in CallsAt : m <= j}) = k]

\* the events between the call at position k and the next call
AfterCall(k) ==
    {m \in (k+1)..Len(trace) : \A j \in CallsAt : j > k => m < j}

IsSerpTrace == trace # <<>> /\ trace[1].op = "serp"

\* C12: in a SERP batch the remote checks go through the active items in
\* order, one request each; a check that fails (the request throws or the
\* answer is not 2xx) writes no serp_results row for its item, and the batch
\* ends only after the request of the last item.
C12_BatchContinues ==
    /\ [](IsSerpTrace =>
            LET items == trace[1].items
                count == Cardinality(CallsAt)
            IN  /\ count <= Len(items)
                /\ \A k \in 1..count : CallNo(k).item = items[k]
                /\ serpRun # Null => count = Val(serpRun).i - 1
                /\ (serpRun = Null /\ trace[1].config) => count = Len(items)
                /\ \A k \in CallsAt :
                      trace[k].result # "ok" =>
                          \A m \in AfterCall(k) : trace[m].type = "delay")
    /\ [][(serpRun # Null /\ trace' # trace /\ trace'[Len(trace) + 1].result # "ok")
             => dbSerp' = dbSerp]_vars

\* a batch over two items is over: the check of the first was answered with
\* a non-2xx status, the second was requested and answered
C12_Witness ==
    /\ IsSerpTrace /\ serpRun = Null /\ Len(trace[1].items) = 2
    /\ Cardinality(CallsAt) = 2
    /\ CallNo(1).result = "notok" /\ CallNo(2).result = "ok"
    /\ \A r \in dbSerp : r.content_id = trace[1].items[1] => r.captured_at = 0

\* C13: between any two consecutive remote calls of a batch (volume refresh
\* or SERP batch) there is a delay, whatever the outcome of the earlier call.
C13_DelayBetweenCalls ==
    \A j, k \in CallsAt :
        j < k => \E m \in (j+1)..(k-1) : trace[m].type = "delay"

\* the rank of the latest row of the content item and device of r with an
\* earlier capture date, Null without such a row
EarlierRank(r) ==
    LET earlier == {q \in dbSerp : /\ q.content_id = r.content_id /\ q.device = r.device
                                   /\ q.captured_at < r.captured_at}
    IN  IF earlier = {} THEN Null
        ELSE (CHOOSE q \in earlier : \A x \in earlier : x.captured_at <= q.captured_at).rank

\* C14: whenever no batch is running, the rank_change of every serp_results
\* row is delta(r_prev, r_curr) with r_curr the rank of the row and r_prev the
\* rank of the latest row of the same content item and device with an earlier
\* capture date; 0 when one of them is null or there is no earlier row.
C14_RankChangeInvariant ==
    serpRun = Null =>
        \A r \in dbSerp :
            r.rank_change =
                (IF EarlierRank(r) = Null \/ r.rank = Null THEN 0
                 ELSE Val(EarlierRank(r)) - Val(r.rank))

\* how far a running batch has come: the index of its next item
BatchPosition(run) == IF run = Null THEN Null ELSE Some(Val(run).i)

\* C15: a pass of the SERP batch whose check returned null for both ranks
\* issues the update is_active = false for its item, and the item is inactive
\* once the database has applied it; a pass with a non-null rank, or with a
\* failed check, leaves the contents table as it is; no step of a batch
\* turns is_active from false to true.
C15_AutoDeactivate ==
    [][/\ (\/ trace' # trace \/ runs' # runs
           \/ BatchPosition(serpRun') # BatchPosition(serpRun)) =>
            \A c \in DOMAIN dbContents :
                dbContents'[c].is_active => dbContents[c].is_active
       /\ (serpRun # Null /\ trace' # trace) =>
            LET call == trace'[Len(trace) + 1]
                new == {trace'[m] : m \in (Len(trace) + 2)..Len(trace')}
                bothNull == call.result = "ok" /\ call.answer.pc = Null /\ call.answer.mo = Null
            IN  /\ bothNull =>
                    /\ \E e \in new : e.type = "update" /\ e.item = call.item
                    /\ \A e \in new : (e.type = "update" /\ e.result = "ok")
                                        => ~dbContents'[call.item].is_active
                /\ ~bothNull => dbContents' = dbContents]_vars

\* an item that was active when its batch started got null for both ranks
\* and is now inactive in the contents table
C15_Witness ==
    /\ IsSerpTrace /\ serpRun = Null
    /\ \E k \in 1..Len(trace) :
        /\ trace[k].type = "update" /\ trace[k].result = "ok"
        /\ ~dbContents[trace[k].item].is_active
        /\ ~kwPage[trace[k].item].is_active

\* every remote check and every database write of the trace succeeded
AllOk(tr) ==
    \A m \in 1..Len(tr) :
        tr[m].type \in {"call", "upsert", "update"} => tr[m].result = "ok"

\* the content item has a rank on PC or MO in its rows of the day
RankedOn(db, id, day) ==
    \E r \in db : r.content_id = id /\ r.captured_at = day /\ r.rank # Null

\* the keyword of the page (every content item of the model belongs to it)
\* as the recommendations page loads it
ReloadedKeyword(loaded) == [contents |-> loaded]

\* C25 (as stated): when a SERP batch ends in which every remote check and
\* every database write succeeded, every content item that was checked and
\* is active has a non-null rank on PC or MO in its rows of that day, and a
\* keyword whose active content items were all checked is not classified
\* urgent on the reloaded data.
C25_ExposedAfterBatch ==
    [][(serpRun # Null /\ serpRun' = Null /\ AllOk(trace')) =>
         LET items == {trace'[1].items[k] : k \in 1..Len(trace'[1].items)}
         IN  /\ \A id \in items :
                   dbContents'[id].is_active => RankedOn(dbSerp', id, trace'[1].day)
             /\ (\A c \in 1..Len(dbContents') : dbContents'[c].is_active => c \in items)
                   => StatusOf(ReloadedKeyword(kwPage')) # "urgent"]_vars

\* C25 (as amended): the same for the content items that toggleContentActive
\* has not set active while the batch ran, and for a keyword none of whose
\* items was set active meanwhile.
C25_ExposedUnlessReactivated ==
    [][(serpRun # Null /\ serpRun' = Null /\ AllOk(trace')) =>
         LET items == {trace'[1].items[k] : k \in 1..Len(trace'[1].items)}
             reactivated == Val(serpRun).reactivated
         IN  /\ \A id \in items \ reactivated :
                   dbContents'[id].is_active => RankedOn(dbSerp', id, trace'[1].day)
             /\ (/\ reactivated = {}
                 /\ \A c \in 1..Len(dbContents') : dbContents'[c].is_active => c \in items)
                   => StatusOf(ReloadedKeyword(kwPage')) # "urgent"]_vars

\* a batch over two items has ended with every check and write answered:
\* the first item is active with a rank of the day, the second was found on
\* neither device and is inactive
C25_Witness ==
    /\ IsSerpTrace /\ serpRun = Null /\ pageMsg = "success" /\ AllOk(trace)
    /\ Len(trace[1].items) = 2
    /\ dbContents[1].is_active /\ RankedOn(dbSerp, 1, trace[1].day)
    /\ ~dbContents[2].is_active /\ ~RankedOn(dbSerp, 2, trace[1].day)
    /\ StatusOf(ReloadedKeyword(kwPage)) = "none"

\* ---- the volume refresh over a keywords table of its own
SubKeywords == {Null, Some(0)} \cup {Some(t) : t \in 1..(MaxVolKeywords + 1)}

\* a few keywords with every sub_keyword, or enough plain keywords for
\* several batches
KeywordTables ==
    UNION {{k \in [1..n -> {KeywordRow(i, sub) : i \in 1..n, sub \in SubKeywords}] :
              \A i \in 1..n : k[i].keyword = i}
           : n \in 0..MaxVolKeywords}
    \cup {PlainKeywords((b - 1) * batchSize + 1) : b \in 2..MaxVolBatches}

VolumeInit ==
    /\ today = 1
    /\ dbKeywords \in KeywordTables
    /\ kwRows = LoadKeywords(dbKeywords)
    /\ ec2 \in BatchEc2Values(Len(dbKeywords))
    /\ dbContents = <<>> /\ dbSerp = {} /\ kwPage = <<>>
    /\ actionRunning = Null /\ serpRun = Null /\ volRun = Null
    /\ publishRecords = <<>> /\ syncRun = Null /\ synced = <<>>
    /\ trace = <<>> /\ pageMsg = "none" /\ runs = 0

VolumeNext == handleVolumeUpdate \/ VolumeBatch

InitVolume ==
    VolumeInit /\ exchanges = <<>> /\ SettingsIdle /\ ScoreIdle /\ SharedIdle /\ DeltaIdle
    /\ BestIdle /\ ProbIdle /\ RecIdle /\ TriggerIdle /\ ViewIdle

SpecVolume == InitVolume /\ [][VolumeNext]_vars

IsVolumeTrace == trace # <<>> /\ trace[1].op = "volume"

\* C22: in a volume refresh a non-2xx answer to the request of batch k ends
\* the refresh: the requests were those of the batches 1..k in order and none
\* follows, the page shows the error and not the success message, and the
\* failing pass changes no keywords row, so the rows of the batches before k
\* keep their updates and the rows of batch k and later are as they were.
C22_VolumeAborts ==
    /\ [](IsVolumeTrace =>
            LET count == Cardinality(CallsAt)
            IN  /\ \A k \in 1..count : CallNo(k).item = k
                /\ \A k \in 1..count :
                      CallNo(k).result = "notok" =>
                          /\ k = count /\ trace[Len(trace)] = CallNo(k)
                          /\ volRun = Null /\ actionRunning = Null
                          /\ pageMsg = "error")
    /\ [][(volRun # Null /\ trace'[Len(trace')].type = "call"
           /\ trace'[Len(trace')].result = "notok")
             => dbKeywords' = dbKeywords]_vars

\* the request of the second batch was answered with a non-2xx status after
\* the first batch was updated: the first row has the new volume, the last
\* row the stored one
C22_Witness ==
    /\ IsVolumeTrace /\ Cardinality(CallsAt) = 2
    /\ CallNo(1).result = "ok" /\ CallNo(2).result = "notok"
    /\ pageMsg = "error"
    /\ dbKeywords[1].monthly_search_total = 40
    /\ dbKeywords[Len(dbKeywords)].monthly_search_total = StoredVolume.monthly_search_total

\* C27: after a volume refresh that ended with the success message, every
\* update applied, every keyword of the refresh has the volumes and the
\* competition of the result for its lookup term (sub_keyword if set,
\* otherwise keyword), also when keywords of one batch share the term, and
\* mobile_ratio = round(mo / total * 100), or 0 when total is 0.
C27_VolumeValues ==
    (/\ IsVolumeTrace /\ volRun = Null /\ pageMsg = "success"
     /\ \A m \in 1..Len(trace) :
           trace[m].type = "keywords update" => trace[m].result = "ok")
    => \A k \in CallsAt :
         \A i \in 1..Len(trace[k].rows) :
            LET row == trace[k].rows[i]
                term == IF row.sub_keyword # Null /\ Val(row.sub_keyword) # 0
                        THEN Val(row.sub_keyword) ELSE row.keyword
                result == trace[k].answer[term]
                stored == dbKeywords[row.id]
            IN  /\ stored.monthly_search_pc = result.pc_volume
                /\ stored.monthly_search_mo = result.mo_volume
                /\ stored.monthly_search_total = result.total_volume
                /\ stored.competition = result.competition
                /\ stored.mobile_ratio =
                      (IF result.total_volume = 0 THEN 0
                       ELSE (200 * result.mo_volume + result.total_volume)
                                \div (2 * result.total_volume))

\* ---- the sync over tables of its own
PublishRecords ==
    [main_keyword : 0..2, sub_keyword : {Null}, url : {"", "u"},
     rank_pc : {Null, Some(1)}, rank_mo : {Null},
     search_pc : {Null}, search_mo : {Null}, search_total : {Null, Some(30)},
     competition : {Null}, mobile_ratio : {Null}]

SyncInit ==
    /\ today = 1
    /\ publishRecords \in SeqUpTo(PublishRecords, MaxPublishRecords)
    /\ \/ dbKeywords = <<>> /\ dbContents = <<>>
       \/ /\ dbKeywords = <<KeywordRow(1, Null)>>
          /\ dbContents \in {<<>>, <<[keyword_id |-> 1, is_active |-> TRUE, url |-> "u"]>>}
    /\ Len(publishRecords) > 1 => publishRecords[1].search_total = Null
    /\ dbSerp = {} /\ ec2 = Null
    /\ kwRows = LoadKeywords(dbKeywords)
    /\ kwPage = LoadContents(dbContents, dbSerp, <<"PC", "MO">>)
    /\ actionRunning = Null /\ serpRun = Null /\ volRun = Null
    /\ syncRun = Null /\ synced = <<>>
    /\ trace = <<>> /\ pageMsg = "none" /\ runs = 0

SyncNext == handleSyncFromPublishRecords \/ SyncRecord

InitSync ==
    SyncInit /\ exchanges = <<>> /\ SettingsIdle /\ ScoreIdle /\ SharedIdle /\ DeltaIdle
    /\ BestIdle /\ ProbIdle /\ RecIdle /\ TriggerIdle /\ ViewIdle

SpecSync == InitSync /\ [][SyncNext]_vars

\* C26: a sync that runs to its end after another one, over the same
\* publish_records and with nothing else changing in between, adds no keywords
\* row and no contents row and reports both added counts as 0; and no step of
\* a sync changes or removes a row that exists.
C26_SyncIdempotent ==
    /\ [](\A k \in 2..Len(synced) :
            synced[k].keywordCount = 0 /\ synced[k].contentCount = 0)
    /\ [][/\ Len(dbKeywords') >= Len(dbKeywords)
          /\ \A id \in 1..Len(dbKeywords) : dbKeywords'[id] = dbKeywords[id]
          /\ Len(dbContents') >= Len(dbContents)
          /\ \A id \in 1..Len(dbContents) : dbContents'[id] = dbContents[id]
          /\ (syncRun # Null /\ synced # <<>>) =>
                (dbKeywords' = dbKeywords /\ dbContents' = dbContents)]_vars

\* ---- the three batch handlers on one page
BusyInit ==
    /\ today = 1
    /\ ec2 \in BatchEc2Values(0)
    /\ dbKeywords \in {<<>>, <<KeywordRow(1, Null)>>}
    /\ dbContents \in {<<>>} \cup (IF dbKeywords = <<>> THEN {}
                                    ELSE {<<c>> : c \in ContentRowsOf(2)})
    /\ publishRecords \in SeqUpTo({r \in PublishRecords :
                                     r.search_total = Null /\ r.rank_pc = Null}, 1)
    /\ dbSerp = {}
    /\ kwRows = LoadKeywords(dbKeywords)
    /\ kwPage = LoadContents(dbContents, dbSerp, <<"PC", "MO">>)
    /\ actionRunning = Null /\ serpRun = Null /\ volRun = Null
    /\ syncRun = Null /\ synced = <<>>
    /\ trace = <<>> /\ pageMsg = "none" /\ runs = 0

BusyNext ==
    \/ handleSyncFromPublishRecords \/ SyncRecord
    \/ handleVolumeUpdate \/ VolumeBatch
    \/ SerpBatchStart \/ SerpBatchItem

InitBusy ==
    BusyInit /\ exchanges = <<>> /\ SettingsIdle /\ ScoreIdle /\ SharedIdle /\ DeltaIdle
    /\ BestIdle /\ ProbIdle /\ RecIdle /\ TriggerIdle /\ ViewIdle

\* every awaited request, database call and delay of a running handler
\* settles, so the pass it is in ends
SpecBusy ==
    /\ InitBusy /\ [][BusyNext]_vars
    /\ WF_vars(SyncRecord) /\ WF_vars(VolumeBatch) /\ WF_vars(SerpBatchItem)

Running == {h \in {"sync", "volume", "serp"} :
              \/ h = "sync" /\ syncRun # Null
              \/ h = "volume" /\ volRun # Null
              \/ h = "serp" /\ serpRun # Null}

\* C24: actionRunning is not null exactly while one of the three batch
\* handlers (sync, volume refresh, SERP batch) is in its try block, and it
\* names that handler; no handler starts while it is set; and every handler
\* that has set it resets it to null, on every way out.
C24_BusyFlag ==
    /\ [](/\ Cardinality(Running) <= 1
          /\ actionRunning = Null <=> Running = {}
          /\ \A h \in Running : actionRunning = Some(h))
    /\ [][runs' # runs => actionRunning = Null]_vars
    /\ \A h \in {"sync", "volume", "serp"} :
          (actionRunning = Some(h)) ~> (actionRunning = Null)

\* the second handler of the behaviour, a sync, is running with the flag set,
\* after the first one left through an exit that reported an error
C24_Witness ==
    /\ actionRunning = Some("sync") /\ syncRun # Null /\ runs = 2
    /\ pageMsg = "error"

\* -------------------------------------------------------------- job triggers
\* A handler of DashboardActions is two steps, up to its fetch and from the
\* answer on; other handlers and timers run in between.
Jobs == {"rank", "volume", "analysis"}

\* the handlers that set loading
Handlers == Jobs \cup {"status"}

\* the path of the request of a job type
PathOf(job) ==
    CASE job = "rank" -> "/run" [] job = "volume" -> "/run-volume"
      [] job = "analysis" -> "/run-analysis"

\* the *_locked flag of a job type in the fetched status
Locked(job) == serverStatus # Null /\ job \in Val(serverStatus).locked

ButtonAlwaysEnabled(job) == loading = Null

\* disabled={loading !== null || serverStatus?.rank_locked} and the like
ButtonEnabled(job) == loading = Null /\ ~Locked(job)

TriggerEc2Values == {Null, Some([base_url |-> "http://ec2", secret |-> "s1"])}

\* the page with the component as mounted: loadConfig has set ec2Config when
\* the row exists and its select worked
TriggerInit ==
    /\ ec2 \in TriggerEc2Values
    /\ ec2Config \in {Null, ec2}
    /\ serverStatus = Null /\ serverLocks \in SUBSET Jobs
    /\ message = "none" /\ sent = <<>> /\ lastOp = Null
    /\ loading = Null /\ inflight = [h \in Handlers |-> 0] /\ timers = 0

Op(name, config, requested, wrote, error) ==
    Some([op |-> name, config |-> config, requested |-> requested, wrote |-> wrote,
          error |-> error])

Outstanding == inflight["status"] + inflight["rank"] + inflight["volume"] + inflight["analysis"]

\* checkServerStatus up to its fetch: GET /health
StatusRequest ==
    IF ec2Config = Null
    THEN message' = "error" /\ UNCHANGED <<loading, inflight>>
    ELSE /\ loading' = Some("status")
         /\ inflight' = [inflight EXCEPT !["status"] = @ + 1]
         /\ UNCHANGED message

\* checkServerStatus, clicked on its enabled button
checkServerStatus ==
    /\ loading = Null
    /\ StatusRequest
    /\ UNCHANGED <<ec2, ec2Config, serverStatus, serverLocks, sent, lastOp, timers, notTrigger>>

\* checkServerStatus, called by the timer a started job has set
StatusTimer ==
    /\ timers > 0
    /\ timers' = timers - 1
    /\ StatusRequest
    /\ UNCHANGED <<ec2, ec2Config, serverStatus, serverLocks, sent, lastOp, notTrigger>>

\* checkServerStatus from the answer of /health on
StatusResponse ==
    /\ inflight["status"] > 0
    /\ inflight' = [inflight EXCEPT !["status"] = @ - 1]
    /\ \E result \in {"throws", "notok", "ok"} :
         IF result = "ok"
         THEN /\ serverStatus' = Some([ok |-> TRUE, locked |-> serverLocks])
              /\ message' = "success"
         ELSE /\ serverStatus' = Null
              /\ message' = "error"
    /\ loading' = Null
    /\ UNCHANGED <<ec2, ec2Config, serverLocks, sent, lastOp, timers, notTrigger>>

\* runWeeklyRank, runVolumeUpdate and runWeeklyAnalysis, clicked on their
\* enabled button and confirmed, up to the fetch
RunJob(job) ==
    /\ ButtonEnabled(job)
    /\ IF ec2Config = Null
       THEN /\ message' = "error"
            /\ lastOp' = Op(job, FALSE, FALSE, FALSE, TRUE)
            /\ UNCHANGED <<sent, loading, inflight>>
       ELSE /\ Len(sent) < MaxTriggers
            /\ sent' = Append(sent, [op |-> job, path |-> PathOf(job),
                                     reported |-> Locked(job),
                                     running |-> job \in serverLocks])
            /\ loading' = Some(job)
            /\ inflight' = [inflight EXCEPT ![job] = @ + 1]
            /\ UNCHANGED <<message, lastOp>>
    /\ UNCHANGED <<ec2, ec2Config, serverStatus, serverLocks, timers, notTrigger>>

\* the same handlers from the answer on.  accepted: the crawler answered
\* data.ok, and the handler sets the timer of the status check
JobResponse(job) ==
    /\ inflight[job] > 0
    /\ inflight' = [inflight EXCEPT ![job] = @ - 1]
    /\ \E result \in {"throws", "notok", "ok"}, accepted \in BOOLEAN :
         IF result = "ok" /\ accepted
         THEN /\ message' = "success"
              /\ serverLocks' = serverLocks \cup {job}
              /\ timers' = timers + 1
              /\ lastOp' = Op(job, TRUE, TRUE, FALSE, FALSE)
         ELSE /\ message' = "error"
              /\ lastOp' = Op(job, TRUE, TRUE, FALSE, TRUE)
              /\ UNCHANGED <<serverLocks, timers>>
    /\ loading' = Null
    /\ UNCHANGED <<ec2, ec2Config, serverStatus, sent, notTrigger>>

\* runManualAnalysis of the recommendations page: POST /run-analysis when
\* the ec2_api row has a value, then the upsert of last_analysis_time and
\* loadData; the page has no message
runManualAnalysis ==
    /\ Len(sent) < MaxTriggers
    /\ \E readOk \in BOOLEAN, started \in BOOLEAN :
        IF readOk /\ ec2 # Null
        THEN /\ sent' = Append(sent, [op |-> "manual", path |-> "/run-analysis",
                                      reported |-> Locked("analysis"),
                                      running |-> "analysis" \in serverLocks])
             /\ serverLocks' = IF started THEN serverLocks \cup {"analysis"} ELSE serverLocks
             /\ lastOp' = Op("manual", TRUE, TRUE, TRUE, FALSE)
        ELSE /\ started = FALSE
             /\ lastOp' = Op("manual", FALSE, FALSE, TRUE, FALSE)
             /\ UNCHANGED <<sent, serverLocks>>
    /\ UNCHANGED <<ec2, ec2Config, serverStatus, message, loading, inflight, timers,
                   notTrigger>>

\* a job of the crawler ends
JobEnds ==
    /\ \E job \in serverLocks : serverLocks' = serverLocks \ {job}
    /\ UNCHANGED <<ec2, ec2Config, serverStatus, message, sent, lastOp, loading, inflight,
                   timers, notTrigger>>

TriggerNext ==
    \/ checkServerStatus
    \/ StatusTimer
    \/ StatusResponse
    \/ \E job \in Jobs : RunJob(job)
    \/ \E job \in Jobs : JobResponse(job)
    \/ runManualAnalysis
    \/ JobEnds

InitTrigger ==
    TriggerInit /\ exchanges = <<>> /\ BatchIdle /\ SettingsIdle /\ ScoreIdle /\ SharedIdle
    /\ DeltaIdle /\ BestIdle /\ ProbIdle /\ RecIdle /\ ViewIdle

SpecTrigger == InitTrigger /\ [][TriggerNext]_vars

\* C11: an operation that calls the crawler and finds no EC2 configuration
\* shows an error, sends no request and writes nothing to the database.
C11_NoConfigAborts ==
    (lastOp # Null /\ ~Val(lastOp).config) =>
        /\ Val(lastOp).error
        /\ ~Val(lastOp).requested
        /\ ~Val(lastOp).wrote

\* C17 (as stated): a job trigger can be issued from the dashboard while the
\* fetched status reports its job type as locked, that is, the button of a
\* locked job type is enabled.
C17_LocksNotEnforced ==
    \A job \in Jobs : Locked(job) => ButtonEnabled(job)

DashboardRequests == {sent[i] : i \in {j \in 1..Len(sent) : sent[j].op \in Jobs}}

\* C17 (as amended): no job trigger request is sent from the dashboard while
\* the fetched status reports its job type as locked; the handlers check
\* nothing themselves, so a request does go out while the job runs on the
\* crawler when the dashboard holds no status or an outdated one.
C17_LockDisablesTrigger ==
    \A r \in DashboardRequests : ~r.reported

\* the status on display reports the rank job as locked, and before it was
\* fetched a /run request went out while the rank job was running
C17_Witness ==
    /\ Locked("rank")
    /\ \E r \in DashboardRequests : r.op = "rank" /\ r.running /\ ~r.reported

\* C23: at most one dashboard action (status check, rank run, volume run,
\* analysis run) is in flight, and while the request of an action is
\* outstanding loading is not null, also when the status check a started job
\* has scheduled fires during another action.
C23_OneInFlight ==
    /\ Outstanding <= 1
    /\ Outstanding > 0 => loading # Null

\* ------------------------------------------------------------ rankings page
\* rankings/page.tsx.  rkData is the list keywords.map walks: for every
\* keyword its content items (contents.filter(c => c.keyword_id === kw.id)) with
\* their serp_results rows in the order the select returns them.
RankChanges == {0, 3, 0 - 11}
RankingRanks == {Null, Some(1), Some(5)}
RankingDays == 0..1
RankingRows ==
    [device : Devices, rank : RankingRanks, rank_change : RankChanges,
     captured_at : RankingDays]

\* serp_results (content_id, device, captured_at) is unique
RankingRowLists(n) ==
    {r \in SeqUpTo(RankingRows, n) :
        \A i, j \in 1..Len(r) :
            (r[i].device = r[j].device /\ r[i].captured_at = r[j].captured_at) => i = j}

\* null as a number in a comparison: null < 5 is 0 < 5
Num(rank) == IF rank = Null THEN 0 ELSE Val(rank)

HasRankOrRow(serp) == serp # Null

\* pcSerp?.rank !== null && pcSerp?.rank !== undefined
HasRank(serp) == serp # Null /\ Val(serp).rank # Null

\* bestPcRank === null || pcSerp.rank < bestPcRank
Better(serp, bestSoFar) == bestSoFar = Null \/ Num(Val(serp).rank) < Val(bestSoFar)

\* let bestPcRank = null, bestMoRank = null, bestPcChange = 0, bestMoChange = 0,
\* capturedAt = '' (Null here)
NoRanking ==
    [pcRank |-> Null, moRank |-> Null, pcChange |-> 0, moChange |-> 0,
     capturedAt |-> Null]

\* one pass of kwContents.forEach; rank_change || 0 is rank_change, a number
RankingStep(acc, content) ==
    LET rows == SortByCapturedDesc(content.serp_results)
        pcSerp == FindDevice(rows, "PC")
        moSerp == FindDevice(rows, "MO")
        afterPc ==
            IF HasRank(pcSerp) /\ Better(pcSerp, acc.pcRank)
            THEN [acc EXCEPT !.pcRank = Val(pcSerp).rank,
                             !.pcChange = Val(pcSerp).rank_change,
                             !.capturedAt = Some(Val(pcSerp).captured_at)]
            ELSE acc
    IN  IF HasRank(moSerp) /\ Better(moSerp, afterPc.moRank)
        THEN [afterPc EXCEPT !.moRank = Val(moSerp).rank,
                             !.moChange = Val(moSerp).rank_change,
                             !.capturedAt = IF afterPc.capturedAt = Null
                                            THEN Some(Val(moSerp).captured_at)
                                            ELSE afterPc.capturedAt]
        ELSE afterPc

RECURSIVE RankingOf(_)
RankingOf(kwContents) ==
    IF kwContents = <<>> THEN NoRanking
    ELSE RankingStep(RankingOf(SubSeq(kwContents, 1, Len(kwContents) - 1)),
                     kwContents[Len(kwContents)])

\* keywords.map(kw => ...): the RankingData of every keyword (the fields
\* keyword, contents and accountName are left out)
Processed(data) == [k \in 1..Len(data) |-> RankingOf(data[k])]

RankFilters == {"all", "up", "down", "new", "lost"}

\* the predicate of rankings.filter for the filter f
PassesRankFilter(r, f) ==
    CASE f = "all" -> TRUE
      [] f = "up" -> r.pcChange > 0 \/ r.moChange > 0
      [] f = "down" -> r.pcChange < 0 \/ r.moChange < 0
      [] f = "new" -> (r.pcRank # Null \/ r.moRank # Null) /\ r.capturedAt = Some(today)
      [] f = "lost" -> /\ r.pcRank = Null /\ r.moRank = Null
                       /\ (r.pcChange < 0 - 10 \/ r.moChange < 0 - 10)

\* the indices of the rows that rankings.filter keeps
filteredRankings(rs, f) == {k \in 1..Len(rs) : PassesRankFilter(rs[k], f)}

\* stats.lost
StatsLost(rs) == Cardinality(filteredRankings(rs, "lost"))

\* Most content items of one keyword and most serp_results rows of one content
\* item on the rankings page.
MaxRankContents == 2
MaxRankRows == 2

RankContents(n) == [serp_results : RankingRowLists(n)]

\* one keyword with one content item of many rows, one keyword with many
\* items of at most one row, or two keywords of one such item each
RankingInputs ==
    {<<<<c>>>> : c \in RankContents(MaxRankRows)}
    \cup {<<cs>> : cs \in SeqUpTo(RankContents(1), MaxRankContents)}
    \cup {<<<<c>>, <<d>>>> : c, d \in RankContents(1)}

RankInit == rkData \in RankingInputs /\ rankings = Null /\ rankFilter = "all"

notRank == <<pureVars, settingsVars, scoreVars, proxyVars, batchVars, triggerVars,
             publishVars, modalVars>>

\* loadData of the rankings page
RankingsLoadData ==
    /\ rankings' = Some(Processed(rkData))
    /\ rankings' # rankings
    /\ UNCHANGED <<rkData, rankFilter, notRank>>

\* setFilter
SetRankFilter ==
    /\ \E f \in RankFilters \ {rankFilter} : rankFilter' = f
    /\ UNCHANGED <<rkData, rankings, notRank>>

RankNext == RankingsLoadData \/ SetRankFilter

InitRankings ==
    RankInit /\ PublishIdle /\ ModalIdle /\ SettingsIdle /\ ScoreIdle /\ ProxyIdle
    /\ BatchIdle /\ TriggerIdle /\ SharedIdle /\ DeltaIdle /\ BestIdle /\ ProbIdle
    /\ RecIdle

SpecRankings == InitRankings /\ [][RankNext]_vars

\* C28: in every RankingData of the rankings page pcRank = null implies
\* pcChange = 0 and moRank = null implies moChange = 0; so the 'lost' filter
\* lists no keyword and stats.lost is 0, whatever the rows hold.
C28_LostIsEmpty ==
    rankings # Null =>
        /\ \A k \in 1..Len(Val(rankings)) :
              /\ Val(rankings)[k].pcRank = Null => Val(rankings)[k].pcChange = 0
              /\ Val(rankings)[k].moRank = Null => Val(rankings)[k].moChange = 0
        /\ filteredRankings(Val(rankings), "lost") = {}
        /\ StatsLost(Val(rankings)) = 0

\* the 'lost' filter is on and the only keyword has dropped out on both
\* devices: its latest rows have a null rank and a rank_change below -10
C28_Witness ==
    /\ rankings # Null /\ rankFilter = "lost" /\ Len(rkData) = 1 /\ Len(rkData[1]) = 1
    /\ \A d \in Devices :
          LET serp == FindDevice(SortByCapturedDesc(rkData[1][1].serp_results), d)
          IN  serp # Null /\ Val(serp).rank = Null /\ Val(serp).rank_change < 0 - 10
    /\ filteredRankings(Val(rankings), rankFilter) = {}

\* ------------------------------------------------------------ publish page
\* publish/page.tsx.  pubData is the result of the contents select: every
\* content item with its account and its serp_results rows in the order the
\* select returns them.  filter.keyword stays '' and sortBy stays 'date', so
\* the rows are listed in the order of the select.
PublishRows == [device : Devices, rank : {Null, Some(1)}, captured_at : RankingDays]

\* serp_results (content_id, device, captured_at) is unique
PublishRowLists(n) ==
    {r \in SeqUpTo(PublishRows, n) :
        \A i, j \in 1..Len(r) :
            (r[i].device = r[j].device /\ r[i].captured_at = r[j].captured_at) => i = j}

\* Most content items and most serp_results rows of one content item on the
\* publish page.
MaxPubContents == 2
MaxPubRows == 3

\* account ids; 0 stands for '' in filter.account
PubAccounts == {1}

PubContents(n) == [account : {Null} \cup {Some(a) : a \in PubAccounts},
                   serp_results : PublishRowLists(n)]

\* one content item of many rows, or many items of at most one row
PublishInputs ==
    {<<c>> : c \in PubContents(MaxPubRows)}
    \cup SeqUpTo(PubContents(1), MaxPubContents)

ExposedFilters == {"all", "exposed", "unexposed"}

\* serp?.rank !== null: true of a missing row, whose rank is undefined
RankNotNullOrNoRow(serp) == serp = Null \/ Val(serp).rank # Null

\* serp?.rank === null || serp?.rank === undefined
RankMissing(serp) == serp = Null \/ Val(serp).rank = Null

\* the predicate of the exposure filter f for the processed content item c
PassesExposure(c, f) ==
    LET pcSerp == FindDevice(c.serp_results, "PC")
        moSerp == FindDevice(c.serp_results, "MO")
    IN  CASE f = "exposed" -> RankNotNullOrNoRow(pcSerp) \/ RankNotNullOrNoRow(moSerp)
          [] f = "unexposed" -> RankMissing(pcSerp) /\ RankMissing(moSerp)
          [] OTHER -> TRUE

\* c.account?.id === filter.account, applied when filter.account is not ''
PassesAccount(c, a) == a = 0 \/ c.account = Some(a)

\* data.map: the rows of every item latest first, the first SerpSlice kept
PublishProcessed(data) ==
    [c \in 1..Len(data) |->
        [id |-> c, account |-> data[c].account,
         serp_results |-> Slice(SortByCapturedDesc(data[c].serp_results), SerpSlice)]]

\* what loadData hands to setContents under the filter f
PublishListed(data, f) ==
    SelectSeq(PublishProcessed(data),
              LAMBDA c : PassesAccount(c, f.account) /\ PassesExposure(c, f.exposed))

\* getRankInfo(content, device).rank: serp?.rank ?? null
getRankInfo(content, device) ==
    LET serp == FindDevice(content.serp_results, device)
    IN  IF serp = Null THEN Null ELSE Val(serp).rank

PublishInit ==
    /\ pubData \in PublishInputs
    /\ pubFilter = [account |-> 0, exposed |-> "all"]
    /\ pubContents = Null

notPublish == <<pureVars, settingsVars, scoreVars, proxyVars, batchVars, triggerVars,
                rankVars, modalVars>>

\* loadData of the publish page: on mount and by the refresh button
PublishLoadData ==
    /\ pubContents' = Some(PublishListed(pubData, pubFilter))
    /\ pubContents' # pubContents
    /\ UNCHANGED <<pubData, pubFilter, notPublish>>

\* setFilter({ ...filter, exposed }), and the effect that runs loadData again
SetExposedFilter ==
    /\ pubContents # Null
    /\ \E f \in ExposedFilters \ {pubFilter.exposed} :
          /\ pubFilter' = [pubFilter EXCEPT !.exposed = f]
          /\ pubContents' = Some(PublishListed(pubData, pubFilter'))
    /\ UNCHANGED <<pubData, notPublish>>

\* setFilter({ ...filter, account }), and the effect that runs loadData again
SetAccountFilter ==
    /\ pubContents # Null
    /\ \E a \in ({0} \cup PubAccounts) \ {pubFilter.account} :
          /\ pubFilter' = [pubFilter EXCEPT !.account = a]
          /\ pubContents' = Some(PublishListed(pubData, pubFilter'))
    /\ UNCHANGED <<pubData, notPublish>>

PublishNext == PublishLoadData \/ SetExposedFilter \/ SetAccountFilter

InitPublish ==
    PublishInit /\ RankIdle /\ ModalIdle /\ SettingsIdle /\ ScoreIdle /\ ProxyIdle
    /\ BatchIdle /\ TriggerIdle /\ SharedIdle /\ DeltaIdle /\ BestIdle /\ ProbIdle
    /\ RecIdle

SpecPublish == InitPublish /\ [][PublishNext]_vars

\* C29: with the exposure filter 'exposed' every listed content item has a
\* non-null latest rank on PC or MO, with 'unexposed' every listed item has
\* no rank on either device, and every content item passes exactly one of
\* the two filters, also an item without a row for one or both devices.
C29_ExposureFilter ==
    pubContents # Null =>
        LET listed == Val(pubContents)
            all == PublishProcessed(pubData)
        IN  /\ pubFilter.exposed = "exposed" =>
                  \A k \in 1..Len(listed) :
                      \/ getRankInfo(listed[k], "PC") # Null
                      \/ getRankInfo(listed[k], "MO") # Null
            /\ pubFilter.exposed = "unexposed" =>
                  \A k \in 1..Len(listed) :
                      /\ getRankInfo(listed[k], "PC") = Null
                      /\ getRankInfo(listed[k], "MO") = Null
            /\ \A k \in 1..Len(all) :
                  PassesExposure(all[k], "exposed") # PassesExposure(all[k], "unexposed")

\* ------------------------------------------------------------ account modal
\* accounts/page.tsx 256, 333-347, 354-398.  The fields name, platform and url
\* are left out.  The page reloads the accounts after every save, so the
\* account object handed to the modal is the row of the table.
StoredScores == {0, 50, 70}
StoredLimits == {0, 2, 5}

\* the values the slider (0..100) and the number input (1..10) are set to
SliderValues == {0, 70}
LimitInputs == {"0", "5"}

\* Most rows of the accounts table of the accounts page.
MaxModalAccounts == 2

AccountTables ==
    UNION {[1..n -> [blog_score : StoredScores, daily_publish_limit : StoredLimits]]
           : n \in 1..MaxModalAccounts}

\* account?.blog_score || 50 and account?.daily_publish_limit || 2
DefaultBlogScore == 50
DefaultPublishLimit == 2

\* v || default: the default replaces 0 as well as a missing value
OrDefault(v, default) == IF v = 0 THEN default ELSE v

\* parseInt(e.target.value): the texts the number input is given here
ParseInt(text) == IF text = "0" THEN 0 ELSE 5

\* useState({...}) of AccountModal for the account handed in, Null for a new one
InitialFormData(account) ==
    IF account = Null
    THEN [blog_score |-> DefaultBlogScore, daily_publish_limit |-> DefaultPublishLimit]
    ELSE [blog_score |-> OrDefault(Val(account).blog_score, DefaultBlogScore),
          daily_publish_limit |->
              OrDefault(Val(account).daily_publish_limit, DefaultPublishLimit)]

\* handleSubmit.payload
Payload(form) ==
    [blog_score |-> form.blog_score, daily_publish_limit |-> form.daily_publish_limit]

ModalInit ==
    /\ acctTable \in AccountTables
    /\ editingAccount = Null /\ modalForm = Null /\ touched = FALSE

notModal == <<pureVars, settingsVars, scoreVars, proxyVars, batchVars, triggerVars,
              rankVars, publishVars>>

\* the edit button of an account card: setEditingAccount(account);
\* setShowModal(true), and the mount of AccountModal
OpenEdit ==
    /\ modalForm = Null
    /\ \E id \in 1..Len(acctTable) :
          /\ editingAccount' = Some(id)
          /\ modalForm' = Some([formData |-> InitialFormData(Some(acctTable[id])),
                                error |-> FALSE])
    /\ touched' = FALSE
    /\ UNCHANGED <<acctTable, notModal>>

\* the add button: setShowModal(true) with editingAccount null
OpenAdd ==
    /\ modalForm = Null /\ Len(acctTable) < MaxModalAccounts
    /\ editingAccount' = Null
    /\ modalForm' = Some([formData |-> InitialFormData(Null), error |-> FALSE])
    /\ touched' = FALSE
    /\ UNCHANGED <<acctTable, notModal>>

\* onChange of the slider: blog_score: parseInt(e.target.value)
ChangeScore ==
    /\ modalForm # Null
    /\ \E v \in SliderValues :
          modalForm' = Some([Val(modalForm) EXCEPT !.formData.blog_score = v])
    /\ touched' = TRUE
    /\ UNCHANGED <<acctTable, editingAccount, notModal>>

\* onChange of the number input: parseInt(e.target.value) || 2
ChangeLimit ==
    /\ modalForm # Null
    /\ \E text \in LimitInputs :
          modalForm' = Some([Val(modalForm) EXCEPT !.formData.daily_publish_limit =
                                OrDefault(ParseInt(text), DefaultPublishLimit)])
    /\ touched' = TRUE
    /\ UNCHANGED <<acctTable, editingAccount, notModal>>

\* handleSubmit, and onSaved of the page when the write succeeded
handleSubmit ==
    /\ modalForm # Null
    /\ \E ok \in BOOLEAN :
          IF ok
          THEN /\ acctTable' =
                     IF editingAccount # Null
                     THEN [acctTable EXCEPT ![Val(editingAccount)] =
                                                Payload(Val(modalForm).formData)]
                     ELSE Append(acctTable, Payload(Val(modalForm).formData))
               /\ editingAccount' = Null /\ modalForm' = Null /\ touched' = FALSE
          ELSE /\ modalForm' = Some([Val(modalForm) EXCEPT !.error = TRUE])
               /\ modalForm' # modalForm
               /\ UNCHANGED <<acctTable, editingAccount, touched>>
    /\ UNCHANGED notModal

\* onClose: setShowModal(false); setEditingAccount(null)
ModalClose ==
    /\ modalForm # Null
    /\ editingAccount' = Null /\ modalForm' = Null /\ touched' = FALSE
    /\ UNCHANGED <<acctTable, notModal>>

ModalNext == OpenEdit \/ OpenAdd \/ ChangeScore \/ ChangeLimit \/ handleSubmit \/ ModalClose

InitModal ==
    ModalInit /\ RankIdle /\ PublishIdle /\ SettingsIdle /\ ScoreIdle /\ ProxyIdle
    /\ BatchIdle /\ TriggerIdle /\ SharedIdle /\ DeltaIdle /\ BestIdle /\ ProbIdle
    /\ RecIdle

SpecModal == InitModal /\ [][ModalNext]_vars

\* C30: opening the edit modal of an account and saving without changing a
\* field leaves the stored blog_score and daily_publish_limit of the account
\* as they were, whatever they were, 0 included.
C30_SaveKeepsValues ==
    [][(editingAccount # Null /\ ~touched) =>
          LET id == Val(editingAccount)
          IN  /\ acctTable'[id].blog_score = acctTable[id].blog_score
              /\ acctTable'[id].daily_publish_limit = acctTable[id].daily_publish_limit]_vars

====
